---- MODULE Spec2Model ----
(***************************************************************************)
(* Model of the data-dictionary backend: the relational catalog of word    *)
(* roots (Morphemes) and standard fields (CompositeEntities), the Qdrant   *)
(* mirror collections, the Jieba vocabulary behind its RwLock, the         *)
(* embedding model behind its Mutex, and the axum handlers that work on    *)
(* them.  A handler is a sequence of steps, one per .await of its code.    *)
(* Texts are sequences of one-character strings.                           *)
(***************************************************************************)
EXTENDS Integers, Sequences, FiniteSets, TLC

(***************************************************************************)
(* Bounds of the model.                                                    *)
(***************************************************************************)
NumTasks == 2
MaxPhraseLen == 3

(***************************************************************************)
(* Text helpers (Rust str methods used by the handlers).                   *)
(***************************************************************************)
\* Option::None of an optional text (NULL in a nullable column)
None == <<"NULL">>

IsSpace(c) == c = " "

\* str::trim().is_empty()
IsBlank(s) == \A i \in 1..Len(s) : IsSpace(s[i])

RECURSIVE TrimStart(_)
TrimStart(s) ==
    IF s = <<>> THEN <<>>
    ELSE IF IsSpace(Head(s)) THEN TrimStart(Tail(s)) ELSE s

RECURSIVE TrimEnd(_)
TrimEnd(s) ==
    IF s = <<>> THEN <<>>
    ELSE IF IsSpace(s[Len(s)]) THEN TrimEnd(SubSeq(s, 1, Len(s) - 1)) ELSE s

\* str::trim
Trim(s) == TrimEnd(TrimStart(s))

\* [&str]::join(sep)
RECURSIVE Join(_, _)
Join(parts, sep) ==
    IF parts = <<>> THEN <<>>
    ELSE IF Len(parts) = 1 THEN parts[1]
    ELSE parts[1] \o sep \o Join(Tail(parts), sep)

\* str::split_whitespace: the maximal runs of non-space characters, in order
RECURSIVE SplitWs(_, _)
SplitWs(s, cur) ==
    IF s = <<>> THEN (IF cur = <<>> THEN <<>> ELSE <<cur>>)
    ELSE IF IsSpace(Head(s))
         THEN (IF cur = <<>> THEN <<>> ELSE <<cur>>) \o SplitWs(Tail(s), <<>>)
         ELSE SplitWs(Tail(s), Append(cur, Head(s)))

split_whitespace(s) == SplitWs(s, <<>>)

\* str::replace(',', " ")
ReplaceComma(s) == [i \in 1..Len(s) |-> IF s[i] = "," THEN " " ELSE s[i]]

\* normalize_terms: commas to blanks, then single blanks between the words
normalize_terms(input) ==
    IF input = None THEN None
    ELSE Join(split_whitespace(ReplaceComma(input)), <<" ">>)

\* format!("{} {} {}", cn_name, en_full_name.unwrap_or(""), associated_terms.unwrap_or(""))
OrEmpty(opt) == IF opt = None THEN <<>> ELSE opt

(***************************************************************************)
(* Jieba: the dictionary is the bundled one plus the words added with      *)
(* add_word(word, Some(99999), None); cut(text, false) takes the route of  *)
(* highest probability through the word graph, without HMM.  Costs are     *)
(* negative log-probabilities, rounded.                                    *)
(***************************************************************************)
\* the bundled dictionary: the single characters and one two-character word
DefaultDict == {<<"a">>, <<"b">>, <<"b", "a">>}

WordCost(w, voc) ==
    IF w \in voc THEN 6
    ELSE IF w \in DefaultDict THEN (IF Len(w) = 1 THEN 9 ELSE 10)
    ELSE 18

\* the ends of the dictionary words that start at i; the character itself if none
DagEnds(s, i, voc) ==
    LET hits == {j \in i..Len(s) : SubSeq(s, i, j) \in voc \cup DefaultDict}
    IN  IF hits = {} THEN {i} ELSE hits

RECURSIVE RouteCost(_, _, _)
RouteCost(s, i, voc) ==
    IF i > Len(s) THEN 0
    ELSE LET ends == DagEnds(s, i, voc)
             cost(j) == WordCost(SubSeq(s, i, j), voc) + RouteCost(s, j + 1, voc)
             best == CHOOSE j \in ends : \A k \in ends : cost(j) <= cost(k)
         IN  cost(best)

\* the end the route takes at i: lowest cost, the longer word on a tie
RouteEnd(s, i, voc) ==
    LET ends == DagEnds(s, i, voc)
        cost(j) == WordCost(SubSeq(s, i, j), voc) + RouteCost(s, j + 1, voc)
    IN  CHOOSE j \in ends :
            \A k \in ends : cost(j) < cost(k) \/ (cost(j) = cost(k) /\ j >= k)

RECURSIVE CutBlock(_, _, _)
CutBlock(s, i, voc) ==
    IF i > Len(s) THEN <<>>
    ELSE LET j == RouteEnd(s, i, voc)
         IN  <<SubSeq(s, i, j)>> \o CutBlock(s, j + 1, voc)

\* cut: whitespace separates the blocks and each blank is a token of its own
RECURSIVE CutFrom(_, _, _)
CutFrom(s, cur, voc) ==
    LET flush == IF cur = <<>> THEN <<>> ELSE CutBlock(cur, 1, voc)
    IN  IF s = <<>> THEN flush
        ELSE IF IsSpace(Head(s))
             THEN flush \o <<(<<Head(s)>>)>> \o CutFrom(Tail(s), <<>>, voc)
             ELSE CutFrom(Tail(s), Append(cur, Head(s)), voc)

Cut(text, voc) == CutFrom(text, <<>>, voc)

(***************************************************************************)
(* PostgreSQL predicates used by the queries.                              *)
(***************************************************************************)
\* text ILIKE pattern: % any run of characters, _ any one character
RECURSIVE ILike(_, _)
ILike(s, p) ==
    IF p = <<>> THEN s = <<>>
    ELSE IF Head(p) = "%"
         THEN ILike(s, Tail(p)) \/ (s /= <<>> /\ ILike(Tail(s), p))
         ELSE s /= <<>>
              /\ (Head(p) = "_" \/ Head(p) = Head(s))
              /\ ILike(Tail(s), Tail(p))

\* the regular expression word matches s entirely: . is any character
ReMatchesAll(s, word) ==
    /\ Len(s) = Len(word)
    /\ \A i \in 1..Len(s) : word[i] = "." \/ word[i] = s[i]

\* associated_terms ~* format!(r"(^|[[:space:]]){}([[:space:]]|$)", word)
TermsMatch(terms, word) ==
    /\ terms /= None
    /\ \E i \in 1..Len(terms) + 1 :
          LET j == i + Len(word) - 1
          IN  /\ j <= Len(terms)
              /\ (i = 1 \/ IsSpace(terms[i - 1]))
              /\ (j = Len(terms) \/ IsSpace(terms[j + 1]))
              /\ ReMatchesAll(SubSeq(terms, i, j), word)

(***************************************************************************)
(* The embedding model and the similarity of two vectors.  A vector is     *)
(* abstracted to a number computed from the text.                          *)
(***************************************************************************)
CharCode(c) ==
    CASE c = "a" -> 1
      [] c = "b" -> 2
      [] c = " " -> 0
      [] OTHER   -> 3

RECURSIVE TextSum(_)
TextSum(s) == IF s = <<>> THEN 0 ELSE CharCode(Head(s)) + TextSum(Tail(s))

\* TextEmbedding::embed of one text
Embed(text) == TextSum(text) % 5

\* cosine similarity of the collection (Distance::Cosine): highest for equal vectors
Score(v, w) == IF v >= w THEN 4 - (v - w) ELSE 4 - (w - v)

\* the text a word root is embedded from
RootText(r) ==
    r.cn_name \o <<" ">> \o OrEmpty(r.en_full_name) \o <<" ">> \o OrEmpty(r.associated_terms)

\* the text a standard field is embedded from
FieldText(f) == f.field_cn_name \o <<" ">> \o OrEmpty(f.associated_terms)

RootPoint(id, r, vec) ==
    [id |-> id, vec |-> vec, cn_name |-> r.cn_name, en_abbr |-> r.en_abbr]

FieldPoint(id, f, vec) ==
    [id |-> id, vec |-> vec, cn_name |-> f.field_cn_name, en_name |-> f.field_en_name]

\* the ids of a collection or table in increasing order
RECURSIVE SortedIds(_)
SortedIds(S) ==
    IF S = {} THEN <<>>
    ELSE LET m == CHOOSE x \in S : \A y \in S : x <= y
         IN  <<m>> \o SortedIds(S \ {m})

\* search_points(collection, vector, limit): the nearest points, best score first
RECURSIVE Nearest(_, _, _, _)
Nearest(coll, ids, vec, limit) ==
    IF ids = {} \/ limit = 0 THEN <<>>
    ELSE LET m == CHOOSE x \in ids :
                     \A y \in ids :
                        \/ Score(coll[x].vec, vec) > Score(coll[y].vec, vec)
                        \/ (Score(coll[x].vec, vec) = Score(coll[y].vec, vec) /\ x <= y)
         IN  <<[point |-> coll[m], score |-> Score(coll[m].vec, vec)]>>
             \o Nearest(coll, ids \ {m}, vec, limit - 1)

search_points(coll, vec, limit) == Nearest(coll, DOMAIN coll, vec, limit)

\* a table or collection without rows
Empty == [x \in {} |-> None]

\* a function without the key id
Without(f, id) == [x \in (DOMAIN f) \ {id} |-> f[x]]

(***************************************************************************)
(* Requests the clients send, and the contents the stores may have when    *)
(* the process starts.                                                     *)
(***************************************************************************)
MaxId == 2
MaxBatch == 2

\* LIMIT 10 of the Tier 1 query and the limit 5 of the vector searches
Tier1Limit == 10
TopK == 5

RootA == [cn_name |-> <<"a">>, en_abbr |-> <<"A">>,
          en_full_name |-> None, associated_terms |-> None]
RootAB == [cn_name |-> <<"a", "b">>, en_abbr |-> <<"B">>,
           en_full_name |-> None, associated_terms |-> <<"b", ",", " ", "a">>]
NoRoot == [cn_name |-> <<>>, en_abbr |-> <<>>,
           en_full_name |-> None, associated_terms |-> None]

FieldAB == [field_cn_name |-> <<"a", "b">>, field_en_name |-> <<"A", "_", "B">>,
            composition_ids |-> <<1, 2>>, associated_terms |-> None]
FieldB == [field_cn_name |-> <<"b">>, field_en_name |-> <<"B">>,
           composition_ids |-> <<2>>, associated_terms |-> <<"a", "b">>]
NoField == [field_cn_name |-> <<>>, field_en_name |-> <<>>,
            composition_ids |-> <<>>, associated_terms |-> None]

\* Json<CreateWordRoot>
RootInputs == {RootA, RootAB}
\* Json<CreateFieldRequest>
FieldInputs == {FieldAB, FieldB}
\* Json<BatchCreateWordRoot>: the first n of a list of items that takes the two in turn
BatchItem(i) == IF i % 2 = 1 THEN RootAB ELSE RootA
BatchInputs == {[i \in 1..n |-> BatchItem(i)] : n \in 1..MaxBatch}
\* Query<SuggestQuery> of the two searches
Queries == {<<"a">>, <<"b", "b">>, <<" ">>}
\* Path<i32>
Ids == 1..MaxId

\* standard_word_roots and standard_fields as the process finds them
InitRoots == {Empty, 1 :> [RootA EXCEPT !.associated_terms = <<"b">>]}
InitFields == {Empty, 1 :> FieldAB}

Tasks == 1..NumTasks
\* the task of main()
Main == 0

VARIABLES
    roots,        \* standard_word_roots: id -> row
    rootSeq,      \* the last value of the table's id sequence
    fields,       \* standard_fields: id -> row
    fieldSeq,
    idxRoots,     \* Qdrant collection word_roots: id -> point
    idxFields,    \* Qdrant collection standard_fields: id -> point
    vocab,        \* the words added to JIEBA
    jiebaWriter,  \* the task that holds JIEBA.write(), or 0
    jiebaReaders, \* the tasks that hold JIEBA.read()
    embedOwner,   \* the task that holds state.embed_model.lock(), or 0
    pc,           \* where each task is in its handler
    op,           \* the handler a task runs
    loc,          \* the handler's local variables
    resp,         \* the response of a finished handler
    deleted       \* per collection, the ids whose delete was answered 204

vars == <<roots, rootSeq, fields, fieldSeq, idxRoots, idxFields, vocab, jiebaWriter,
          jiebaReaders, embedOwner, pc, op, loc, resp, deleted>>

db == <<roots, rootSeq, fields, fieldSeq>>
idx == <<idxRoots, idxFields>>
locks == <<jiebaWriter, jiebaReaders, embedOwner>>

InitLoc ==
    [q |-> <<>>, id |-> 0, root |-> NoRoot, field |-> NoField, items |-> <<>>,
     words |-> <<>>, k |-> 0, parts |-> <<>>, missing |-> <<>>, matched |-> <<>>, hits |-> <<>>,
     vec |-> 0, vecs |-> <<>>, points |-> Empty, rows |-> Empty, success |-> 0, errors |-> <<>>,
     \* what happened so far, for the properties
     dbOk |-> FALSE, dbErr |-> FALSE, embedRan |-> FALSE, embedErr |-> FALSE,
     idxTried |-> FALSE, idxOk |-> FALSE, tier2 |-> FALSE, nameHit |-> FALSE,
     gone |-> {}, quiet |-> FALSE, ids |-> <<>>]

NoResp == [code |-> 0, items |-> <<>>, error |-> FALSE]

MaxOf(S) == IF S = {} THEN 0 ELSE CHOOSE x \in S : \A y \in S : y <= x

Init ==
    /\ roots \in InitRoots
    /\ rootSeq = MaxOf(DOMAIN roots)
    /\ fields \in InitFields
    /\ fieldSeq = MaxOf(DOMAIN fields)
    /\ idxRoots = Empty
    /\ idxFields = Empty
    /\ vocab = {}
    /\ jiebaWriter = 0
    /\ jiebaReaders = {}
    /\ embedOwner = 0
    /\ pc = [t \in {Main} \cup Tasks |-> IF t = Main THEN "init_dict" ELSE "idle"]
    /\ op = [t \in {Main} \cup Tasks |-> IF t = Main THEN "main" ELSE "none"]
    /\ loc = [t \in {Main} \cup Tasks |-> InitLoc]
    /\ resp = [t \in {Main} \cup Tasks |-> NoResp]
    /\ deleted = [word_roots |-> {}, standard_fields |-> {}]

(***************************************************************************)
(* Steps shared by the handlers.                                           *)
(***************************************************************************)
Goto(t, p) == pc' = [pc EXCEPT ![t] = p]

\* into_response(): the handler returns
Reply(t, code, items, error) ==
    /\ pc' = [pc EXCEPT ![t] = "done"]
    /\ resp' = [resp EXCEPT ![t] = [code |-> code, items |-> items, error |-> error]]

\* axum accepts a request and spawns the task that runs handler h; the tasks
\* are taken in the order of their numbers
Accept(t, h, first, l) ==
    /\ pc[Main] = "serving"
    /\ pc[t] = "idle"
    /\ \A u \in Tasks : u < t => pc[u] /= "idle"
    /\ op' = [op EXCEPT ![t] = h]
    /\ pc' = [pc EXCEPT ![t] = first]
    /\ loc' = [loc EXCEPT ![t] = l]

\* a lock() that returns although another task holds the guard
EmbedLockNotExclusive == TRUE

\* state.embed_model.lock().await returns when no task holds the guard
EmbedLockFree == embedOwner = 0

LockEmbed(t) ==
    /\ EmbedLockFree
    /\ embedOwner' = t

\* the MutexGuard is dropped
UnlockEmbed(t) == embedOwner' = IF embedOwner = t THEN 0 ELSE embedOwner

\* a write() that returns although other tasks hold guards
JiebaWriteNotExclusive == TRUE

\* JIEBA.write().await returns when no task reads or writes
JiebaWriteFree == jiebaWriter = 0 /\ jiebaReaders = {}

\* JIEBA.read().await returns when no task writes
JiebaReadFree == jiebaWriter = 0

\* upsert_points(UpsertPointsBuilder::new(collection, points))
Upsert(coll, points) ==
    [id \in (DOMAIN coll) \cup (DOMAIN points) |->
        IF id \in DOMAIN points THEN points[id] ELSE coll[id]]

(***************************************************************************)
(* main(): the start-up work, before the server accepts requests.          *)
(***************************************************************************)
\* init_custom_dictionary
init_custom_dictionary ==
    /\ pc[Main] = "init_dict"
    /\ \E ok \in BOOLEAN :
          LET names == IF ok THEN {roots[i].cn_name : i \in DOMAIN roots} ELSE {}
          IN  vocab' = vocab \cup names
    /\ Goto(Main, "sync_roots_fetch")
    /\ UNCHANGED <<db, idx, locks, op, loc, resp, deleted>>

\* sync_roots_to_qdrant: fetch_all(...).await.unwrap_or_default()
sync_roots_fetch ==
    /\ pc[Main] = "sync_roots_fetch"
    /\ \E ok \in BOOLEAN :
          LET rows == IF ok THEN roots ELSE Empty
          IN  /\ loc' = [loc EXCEPT ![Main].rows = rows]
              /\ Goto(Main, IF DOMAIN rows = {} THEN "sync_fields_fetch"
                            ELSE "sync_roots_lock")
    /\ UNCHANGED <<db, idx, vocab, locks, op, resp, deleted>>

sync_roots_lock ==
    /\ pc[Main] = "sync_roots_lock"
    /\ LockEmbed(Main)
    /\ Goto(Main, "sync_roots_embed")
    /\ UNCHANGED <<db, idx, vocab, jiebaWriter, jiebaReaders, op, loc, resp, deleted>>

\* the loop over the rows: a root whose embed fails gets no point
sync_roots_embed ==
    /\ pc[Main] = "sync_roots_embed"
    /\ \E good \in SUBSET (DOMAIN loc[Main].rows) :
          LET rows == loc[Main].rows
              points == [id \in good |-> RootPoint(id, rows[id], Embed(RootText(rows[id])))]
          IN  /\ loc' = [loc EXCEPT ![Main].points = points, ![Main].embedRan = TRUE]
              /\ IF good = {}
                 THEN UnlockEmbed(Main) /\ Goto(Main, "sync_fields_fetch")
                 ELSE UNCHANGED embedOwner /\ Goto(Main, "sync_roots_upsert")
    /\ UNCHANGED <<db, idx, vocab, jiebaWriter, jiebaReaders, op, resp, deleted>>

sync_roots_upsert ==
    /\ pc[Main] = "sync_roots_upsert"
    /\ \E ok \in BOOLEAN :
          idxRoots' = IF ok THEN Upsert(idxRoots, loc[Main].points) ELSE idxRoots
    /\ UnlockEmbed(Main)
    /\ Goto(Main, "sync_fields_fetch")
    /\ UNCHANGED <<db, idxFields, vocab, jiebaWriter, jiebaReaders, op, loc, resp, deleted>>

\* sync_fields_to_qdrant
sync_fields_fetch ==
    /\ pc[Main] = "sync_fields_fetch"
    /\ \E ok \in BOOLEAN :
          LET rows == IF ok THEN fields ELSE Empty
          IN  /\ loc' = [loc EXCEPT ![Main] =
                            IF DOMAIN rows = {} THEN InitLoc
                            ELSE [InitLoc EXCEPT !.rows = rows]]
              /\ Goto(Main, IF DOMAIN rows = {} THEN "serving" ELSE "sync_fields_lock")
    /\ UNCHANGED <<db, idx, vocab, locks, op, resp, deleted>>

sync_fields_lock ==
    /\ pc[Main] = "sync_fields_lock"
    /\ LockEmbed(Main)
    /\ Goto(Main, "sync_fields_embed")
    /\ UNCHANGED <<db, idx, vocab, jiebaWriter, jiebaReaders, op, loc, resp, deleted>>

sync_fields_embed ==
    /\ pc[Main] = "sync_fields_embed"
    /\ \E good \in SUBSET (DOMAIN loc[Main].rows) :
          LET rows == loc[Main].rows
              points == [id \in good |->
                            FieldPoint(id, rows[id], Embed(FieldText(rows[id])))]
          IN  /\ IF good = {}
                 THEN /\ UnlockEmbed(Main)
                      /\ Goto(Main, "serving")
                      /\ loc' = [loc EXCEPT ![Main] = InitLoc]
                 ELSE /\ UNCHANGED embedOwner
                      /\ Goto(Main, "sync_fields_upsert")
                      /\ loc' = [loc EXCEPT ![Main].points = points,
                                            ![Main].embedRan = TRUE]
    /\ UNCHANGED <<db, idx, vocab, jiebaWriter, jiebaReaders, op, resp, deleted>>

sync_fields_upsert ==
    /\ pc[Main] = "sync_fields_upsert"
    /\ \E ok \in BOOLEAN :
          idxFields' = IF ok THEN Upsert(idxFields, loc[Main].points) ELSE idxFields
    /\ UnlockEmbed(Main)
    /\ Goto(Main, "serving")
    /\ loc' = [loc EXCEPT ![Main] = InitLoc]
    /\ UNCHANGED <<db, idxRoots, vocab, jiebaWriter, jiebaReaders, op, resp, deleted>>

(***************************************************************************)
(* word_root_handler.rs                                                    *)
(***************************************************************************)
Normalized(r) == [r EXCEPT !.associated_terms = normalize_terms(r.associated_terms)]

\* INSERT INTO standard_word_roots ... RETURNING: the row gets the next id
InsertRoot(row) ==
    /\ rootSeq < MaxId
    /\ rootSeq' = rootSeq + 1
    /\ roots' = (rootSeq + 1 :> row) @@ roots
    /\ deleted' = [deleted EXCEPT !.word_roots = @ \ {rootSeq + 1}]

create_root_accept(t) ==
    /\ \E in \in RootInputs :
          Accept(t, "create_root", "cr_insert", [InitLoc EXCEPT !.root = Normalized(in)])
    /\ UNCHANGED <<db, idx, vocab, locks, resp, deleted>>

create_root_insert(t) ==
    /\ pc[t] = "cr_insert"
    /\ \E ok \in BOOLEAN :
          IF ok
          THEN /\ InsertRoot(loc[t].root)
               /\ loc' = [loc EXCEPT ![t].id = rootSeq + 1, ![t].dbOk = TRUE]
               /\ Goto(t, "cr_jieba")
               /\ UNCHANGED resp
          ELSE /\ loc' = [loc EXCEPT ![t].dbErr = TRUE]
               /\ Reply(t, 500, <<>>, TRUE)
               /\ UNCHANGED <<roots, rootSeq, deleted>>
    /\ UNCHANGED <<fields, fieldSeq, idx, vocab, locks, op>>

\* let mut jieba_write = JIEBA.write().await; jieba_write.add_word(...)
create_root_jieba(t) ==
    /\ pc[t] = "cr_jieba"
    /\ JiebaWriteFree
    /\ jiebaWriter' = t
    /\ vocab' = vocab \cup {loc[t].root.cn_name}
    /\ Goto(t, "cr_lock")
    /\ UNCHANGED <<db, idx, jiebaReaders, embedOwner, op, loc, resp, deleted>>

create_root_lock(t) ==
    /\ pc[t] = "cr_lock"
    /\ LockEmbed(t)
    /\ Goto(t, "cr_embed")
    /\ UNCHANGED <<db, idx, vocab, jiebaWriter, jiebaReaders, op, loc, resp, deleted>>

\* model.embed(vec![text_to_embed], None); on Err the handler answers at once
create_root_embed(t) ==
    /\ pc[t] = "cr_embed"
    /\ \E ok \in BOOLEAN :
          IF ok
          THEN /\ loc' = [loc EXCEPT ![t].vec = Embed(RootText(loc[t].root)),
                                     ![t].embedRan = TRUE]
               /\ Goto(t, "cr_upsert")
               /\ UNCHANGED <<resp, locks>>
          ELSE /\ loc' = [loc EXCEPT ![t].embedRan = TRUE, ![t].embedErr = TRUE]
               /\ UnlockEmbed(t)
               /\ jiebaWriter' = 0
               /\ UNCHANGED jiebaReaders
               /\ Reply(t, 201, <<loc[t].id>>, FALSE)
    /\ UNCHANGED <<db, idx, vocab, op, deleted>>

\* an upsert whose failure deletes the row again
create_root_upsert_rollback(t) ==
    /\ pc[t] = "cr_upsert"
    /\ \E ok \in BOOLEAN :
          /\ idxRoots' = IF ok
                         THEN Upsert(idxRoots,
                                     loc[t].id :> RootPoint(loc[t].id, loc[t].root, loc[t].vec))
                         ELSE idxRoots
          /\ roots' = IF ok THEN roots ELSE Without(roots, loc[t].id)
          /\ loc' = [loc EXCEPT ![t].idxTried = TRUE, ![t].idxOk = ok]
    /\ UnlockEmbed(t)
    /\ jiebaWriter' = 0
    /\ Reply(t, 201, <<loc[t].id>>, FALSE)
    /\ UNCHANGED <<rootSeq, fields, fieldSeq, idxFields, vocab, jiebaReaders, op, deleted>>

\* let _ = state.qdrant.upsert_points(...).await; then both guards are dropped
create_root_upsert(t) ==
    /\ pc[t] = "cr_upsert"
    /\ \E ok \in BOOLEAN :
          /\ idxRoots' = IF ok
                         THEN Upsert(idxRoots,
                                     loc[t].id :> RootPoint(loc[t].id, loc[t].root, loc[t].vec))
                         ELSE idxRoots
          /\ loc' = [loc EXCEPT ![t].idxTried = TRUE, ![t].idxOk = ok]
    /\ UnlockEmbed(t)
    /\ jiebaWriter' = 0
    /\ Reply(t, 201, <<loc[t].id>>, FALSE)
    /\ UNCHANGED <<db, idxFields, vocab, jiebaReaders, op, deleted>>

\* batch_create_roots
batch_create_roots_accept(t) ==
    /\ \E items \in BatchInputs :
          Accept(t, "batch_create_roots", "bc_lock",
                 [InitLoc EXCEPT !.items = [i \in DOMAIN items |-> Normalized(items[i])]])
    /\ UNCHANGED <<db, idx, vocab, locks, resp, deleted>>

batch_create_roots_lock(t) ==
    /\ pc[t] = "bc_lock"
    /\ LockEmbed(t)
    /\ Goto(t, "bc_embed")
    /\ UNCHANGED <<db, idx, vocab, jiebaWriter, jiebaReaders, op, loc, resp, deleted>>

\* model.embed(texts_to_embed, None) in its own block: the guard is dropped after it
\* an import whose guard is not scoped: it keeps the embedding lock after model.embed
batch_create_roots_embed_keep(t) ==
    /\ pc[t] = "bc_embed"
    /\ \E ok \in BOOLEAN :
          IF ok
          THEN /\ loc' = [loc EXCEPT
                            ![t].vecs = [i \in DOMAIN loc[t].items |->
                                            Embed(RootText(loc[t].items[i]))],
                            ![t].k = 1, ![t].embedRan = TRUE]
               /\ Goto(t, "bc_insert")
               /\ UNCHANGED <<resp, embedOwner>>
          ELSE /\ loc' = [loc EXCEPT ![t].embedRan = TRUE, ![t].embedErr = TRUE]
               /\ Reply(t, 500, <<>>, TRUE)
               /\ UnlockEmbed(t)
    /\ UNCHANGED <<db, idx, vocab, jiebaWriter, jiebaReaders, op, deleted>>

batch_create_roots_embed(t) ==
    /\ pc[t] = "bc_embed"
    /\ \E ok \in BOOLEAN :
          IF ok
          THEN /\ loc' = [loc EXCEPT
                            ![t].vecs = [i \in DOMAIN loc[t].items |->
                                            Embed(RootText(loc[t].items[i]))],
                            ![t].k = 1, ![t].embedRan = TRUE]
               /\ Goto(t, "bc_insert")
               /\ UNCHANGED resp
          ELSE /\ loc' = [loc EXCEPT ![t].embedRan = TRUE, ![t].embedErr = TRUE]
               /\ Reply(t, 500, <<>>, TRUE)
    /\ UnlockEmbed(t)
    /\ UNCHANGED <<db, idx, vocab, jiebaWriter, jiebaReaders, op, deleted>>

\* a loop that takes the embedding lock again for every item
BatchNextRelock(t, l) ==
    IF l.k < Len(l.items)
    THEN /\ loc' = [loc EXCEPT ![t] = [l EXCEPT !.k = l.k + 1]]
         /\ Goto(t, "bc_lock")
         /\ UNCHANGED resp
    ELSE IF DOMAIN l.points /= {}
    THEN /\ loc' = [loc EXCEPT ![t] = l]
         /\ Goto(t, "bc_upsert")
         /\ UNCHANGED resp
    ELSE /\ loc' = [loc EXCEPT ![t] = l]
         /\ Reply(t, 200, <<l.success, Len(l.errors), l.errors>>, FALSE)

\* after item k: the next item, the upsert of the points, or the answer
BatchNext(t, l) ==
    IF l.k < Len(l.items)
    THEN /\ loc' = [loc EXCEPT ![t] = [l EXCEPT !.k = l.k + 1]]
         /\ Goto(t, "bc_insert")
         /\ UNCHANGED resp
    ELSE IF DOMAIN l.points /= {}
    THEN /\ loc' = [loc EXCEPT ![t] = l]
         /\ Goto(t, "bc_upsert")
         /\ UNCHANGED resp
    ELSE /\ loc' = [loc EXCEPT ![t] = l]
         /\ Reply(t, 200, <<l.success, Len(l.errors), l.errors>>, FALSE)

\* an import that drops the message of a failed INSERT
batch_create_roots_insert_silent(t) ==
    /\ pc[t] = "bc_insert"
    /\ \E ok \in BOOLEAN :
          IF ok
          THEN /\ InsertRoot(loc[t].items[loc[t].k])
               /\ loc' = [loc EXCEPT ![t].id = rootSeq + 1, ![t].dbOk = TRUE,
                                     ![t].success = @ + 1]
               /\ Goto(t, "bc_jieba")
               /\ UNCHANGED resp
          ELSE /\ BatchNext(t, loc[t])
               /\ UNCHANGED <<roots, rootSeq, deleted>>
    /\ UNCHANGED <<fields, fieldSeq, idx, vocab, locks, op>>

batch_create_roots_insert(t) ==
    /\ pc[t] = "bc_insert"
    /\ \E ok \in BOOLEAN :
          IF ok
          THEN /\ InsertRoot(loc[t].items[loc[t].k])
               /\ loc' = [loc EXCEPT ![t].id = rootSeq + 1, ![t].dbOk = TRUE,
                                     ![t].success = @ + 1]
               /\ Goto(t, "bc_jieba")
               /\ UNCHANGED resp
          ELSE /\ BatchNext(t, [loc[t] EXCEPT !.errors = Append(@, loc[t].k)])
               /\ UNCHANGED <<roots, rootSeq, deleted>>
    /\ UNCHANGED <<fields, fieldSeq, idx, vocab, locks, op>>

\* an import that takes the vector by the count of inserted rows, not by the item's index
batch_create_roots_jieba_shifted(t) ==
    /\ pc[t] = "bc_jieba"
    /\ JiebaWriteFree
    /\ vocab' = vocab \cup {loc[t].items[loc[t].k].cn_name}
    /\ LET l == loc[t]
           point == RootPoint(l.id, l.items[l.k], l.vecs[l.success])
       IN  BatchNext(t, [l EXCEPT !.points = (l.id :> point) @@ @])
    /\ UNCHANGED <<db, idx, locks, op, deleted>>

\* JIEBA.write().await.add_word(...): the guard lives for this statement only
batch_create_roots_jieba(t) ==
    /\ pc[t] = "bc_jieba"
    /\ JiebaWriteFree
    /\ vocab' = vocab \cup {loc[t].items[loc[t].k].cn_name}
    /\ LET l == loc[t]
           point == RootPoint(l.id, l.items[l.k], l.vecs[l.k])
       IN  BatchNext(t, [l EXCEPT !.points = (l.id :> point) @@ @])
    /\ UNCHANGED <<db, idx, locks, op, deleted>>

batch_create_roots_upsert(t) ==
    /\ pc[t] = "bc_upsert"
    /\ \E ok \in BOOLEAN :
          /\ idxRoots' = IF ok THEN Upsert(idxRoots, loc[t].points) ELSE idxRoots
          /\ loc' = [loc EXCEPT ![t].idxTried = TRUE, ![t].idxOk = ok]
    /\ Reply(t, 200, <<loc[t].success, Len(loc[t].errors), loc[t].errors>>, FALSE)
    /\ UNCHANGED <<db, idxFields, vocab, locks, op, deleted>>

\* update_root
update_root_accept(t) ==
    /\ \E id \in Ids, in \in RootInputs :
          Accept(t, "update_root", "ur_update",
                 [InitLoc EXCEPT !.id = id, !.root = Normalized(in)])
    /\ UNCHANGED <<db, idx, vocab, locks, resp, deleted>>

\* UPDATE ... WHERE id = $6 RETURNING ... fetch_one: no row is Err(RowNotFound)
update_root_update(t) ==
    /\ pc[t] = "ur_update"
    /\ \E ok \in BOOLEAN :
          IF ok /\ loc[t].id \in DOMAIN roots
          THEN /\ roots' = [roots EXCEPT ![loc[t].id] = loc[t].root]
               /\ loc' = [loc EXCEPT ![t].dbOk = TRUE]
               /\ Goto(t, "ur_lock")
               /\ UNCHANGED resp
          ELSE /\ loc' = [loc EXCEPT ![t].dbErr = ~ok]
               /\ Reply(t, 500, <<>>, TRUE)
               /\ UNCHANGED roots
    /\ UNCHANGED <<rootSeq, fields, fieldSeq, idx, vocab, locks, op, deleted>>

update_root_lock(t) ==
    /\ pc[t] = "ur_lock"
    /\ LockEmbed(t)
    /\ Goto(t, "ur_embed")
    /\ UNCHANGED <<db, idx, vocab, jiebaWriter, jiebaReaders, op, loc, resp, deleted>>

update_root_embed(t) ==
    /\ pc[t] = "ur_embed"
    /\ \E ok \in BOOLEAN :
          IF ok
          THEN /\ loc' = [loc EXCEPT ![t].vec = Embed(RootText(loc[t].root)),
                                     ![t].embedRan = TRUE]
               /\ Goto(t, "ur_upsert")
               /\ UNCHANGED <<resp, embedOwner>>
          ELSE /\ loc' = [loc EXCEPT ![t].embedRan = TRUE, ![t].embedErr = TRUE]
               /\ UnlockEmbed(t)
               /\ Reply(t, 200, <<>>, FALSE)
    /\ UNCHANGED <<db, idx, vocab, jiebaWriter, jiebaReaders, op, deleted>>

update_root_upsert(t) ==
    /\ pc[t] = "ur_upsert"
    /\ \E ok \in BOOLEAN :
          /\ idxRoots' = IF ok
                         THEN Upsert(idxRoots,
                                     loc[t].id :> RootPoint(loc[t].id, loc[t].root, loc[t].vec))
                         ELSE idxRoots
          /\ loc' = [loc EXCEPT ![t].idxTried = TRUE, ![t].idxOk = ok]
    /\ UnlockEmbed(t)
    /\ Reply(t, 200, <<>>, FALSE)
    /\ UNCHANGED <<db, idxFields, vocab, jiebaWriter, jiebaReaders, op, deleted>>

\* delete_root
delete_root_accept(t) ==
    /\ \E id \in Ids :
          Accept(t, "delete_root", "dr_delete", [InitLoc EXCEPT !.id = id])
    /\ UNCHANGED <<db, idx, vocab, locks, resp, deleted>>

\* a delete that goes on to delete_points without looking at rows_affected()
delete_root_delete_unchecked(t) ==
    /\ pc[t] = "dr_delete"
    /\ \E ok \in BOOLEAN :
          IF ok
          THEN /\ roots' = Without(roots, loc[t].id)
               /\ loc' = [loc EXCEPT ![t].dbOk = loc[t].id \in DOMAIN roots]
               /\ Goto(t, "dr_points")
               /\ UNCHANGED resp
          ELSE /\ loc' = [loc EXCEPT ![t].dbErr = TRUE]
               /\ Reply(t, 500, <<>>, TRUE)
               /\ UNCHANGED roots
    /\ UNCHANGED <<rootSeq, fields, fieldSeq, idx, vocab, locks, op, deleted>>

\* DELETE FROM standard_word_roots WHERE id = $1, then rows_affected()
delete_root_delete(t) ==
    /\ pc[t] = "dr_delete"
    /\ \E ok \in BOOLEAN :
          IF ok /\ loc[t].id \in DOMAIN roots
          THEN /\ roots' = Without(roots, loc[t].id)
               /\ loc' = [loc EXCEPT ![t].dbOk = TRUE]
               /\ Goto(t, "dr_points")
               /\ UNCHANGED resp
          ELSE /\ loc' = [loc EXCEPT ![t].dbErr = ~ok]
               /\ Reply(t, IF ok THEN 404 ELSE 500, <<>>, ~ok)
               /\ UNCHANGED roots
    /\ UNCHANGED <<rootSeq, fields, fieldSeq, idx, vocab, locks, op, deleted>>

\* let _ = state.qdrant.delete_points(... points(vec![id])).await
delete_root_points(t) ==
    /\ pc[t] = "dr_points"
    /\ \E ok \in BOOLEAN :
          /\ idxRoots' = IF ok THEN Without(idxRoots, loc[t].id) ELSE idxRoots
          /\ loc' = [loc EXCEPT ![t].idxTried = TRUE, ![t].idxOk = ok]
    /\ deleted' = [deleted EXCEPT !.word_roots = @ \cup {loc[t].id}]
    /\ Reply(t, 204, <<>>, FALSE)
    /\ UNCHANGED <<db, idxFields, vocab, locks, op>>

\* clear_all_roots
clear_all_roots_accept(t) ==
    /\ Accept(t, "clear_all_roots", "xr_truncate", InitLoc)
    /\ UNCHANGED <<db, idx, vocab, locks, resp, deleted>>

\* TRUNCATE TABLE standard_word_roots RESTART IDENTITY
clear_all_roots_truncate(t) ==
    /\ pc[t] = "xr_truncate"
    /\ \E ok \in BOOLEAN :
          IF ok
          THEN /\ roots' = Empty
               /\ rootSeq' = 0
               /\ loc' = [loc EXCEPT ![t].dbOk = TRUE]
               /\ Goto(t, "xr_points")
               /\ UNCHANGED resp
          ELSE /\ loc' = [loc EXCEPT ![t].dbErr = TRUE]
               /\ Reply(t, 500, <<>>, TRUE)
               /\ UNCHANGED <<roots, rootSeq>>
    /\ UNCHANGED <<fields, fieldSeq, idx, vocab, locks, op, deleted>>

\* a clear-all that also empties the custom dictionary
clear_all_roots_points_retract(t) ==
    /\ pc[t] = "xr_points"
    /\ \E ok \in BOOLEAN :
          /\ idxRoots' = IF ok THEN Empty ELSE idxRoots
          /\ loc' = [loc EXCEPT ![t].idxTried = TRUE, ![t].idxOk = ok]
    /\ vocab' = {}
    /\ Reply(t, 200, <<>>, FALSE)
    /\ UNCHANGED <<db, idxFields, locks, op, deleted>>

\* let _ = state.qdrant.delete_points(... points(Filter::default())).await
clear_all_roots_points(t) ==
    /\ pc[t] = "xr_points"
    /\ \E ok \in BOOLEAN :
          /\ idxRoots' = IF ok THEN Empty ELSE idxRoots
          /\ loc' = [loc EXCEPT ![t].idxTried = TRUE, ![t].idxOk = ok]
    /\ Reply(t, 200, <<>>, FALSE)
    /\ UNCHANGED <<db, idxFields, vocab, locks, op, deleted>>

(***************************************************************************)
(* field_handler.rs                                                        *)
(***************************************************************************)
create_field_accept(t) ==
    /\ \E in \in FieldInputs :
          Accept(t, "create_field", "cf_insert", [InitLoc EXCEPT !.field = in])
    /\ UNCHANGED <<db, idx, vocab, locks, resp, deleted>>

\* INSERT INTO standard_fields ... RETURNING, and the answer
create_field_insert(t) ==
    /\ pc[t] = "cf_insert"
    /\ \E ok \in BOOLEAN :
          IF ok /\ fieldSeq < MaxId
          THEN /\ fieldSeq' = fieldSeq + 1
               /\ fields' = (fieldSeq + 1 :> loc[t].field) @@ fields
               /\ deleted' = [deleted EXCEPT !.standard_fields = @ \ {fieldSeq + 1}]
               /\ loc' = [loc EXCEPT ![t].id = fieldSeq + 1, ![t].dbOk = TRUE]
               /\ Reply(t, 201, <<fieldSeq + 1>>, FALSE)
          ELSE /\ loc' = [loc EXCEPT ![t].dbErr = TRUE]
               /\ Reply(t, 500, <<>>, TRUE)
               /\ UNCHANGED <<fields, fieldSeq, deleted>>
    /\ UNCHANGED <<roots, rootSeq, idx, vocab, locks, op>>

update_field_accept(t) ==
    /\ \E id \in Ids, in \in FieldInputs :
          Accept(t, "update_field", "uf_update",
                 [InitLoc EXCEPT !.id = id, !.field = in])
    /\ UNCHANGED <<db, idx, vocab, locks, resp, deleted>>

\* UPDATE standard_fields ... WHERE id=$6, then rows_affected()
update_field_update(t) ==
    /\ pc[t] = "uf_update"
    /\ \E ok \in BOOLEAN :
          IF ok /\ loc[t].id \in DOMAIN fields
          THEN /\ fields' = [fields EXCEPT ![loc[t].id] = loc[t].field]
               /\ loc' = [loc EXCEPT ![t].dbOk = TRUE]
               /\ Reply(t, 200, <<>>, FALSE)
          ELSE /\ loc' = [loc EXCEPT ![t].dbErr = ~ok]
               /\ Reply(t, IF ok THEN 404 ELSE 500, <<>>, ~ok)
               /\ UNCHANGED fields
    /\ UNCHANGED <<roots, rootSeq, fieldSeq, idx, vocab, locks, op, deleted>>

delete_field_accept(t) ==
    /\ \E id \in Ids :
          Accept(t, "delete_field", "df_delete", [InitLoc EXCEPT !.id = id])
    /\ UNCHANGED <<db, idx, vocab, locks, resp, deleted>>

\* DELETE FROM standard_fields WHERE id = $1, then rows_affected()
delete_field_delete(t) ==
    /\ pc[t] = "df_delete"
    /\ \E ok \in BOOLEAN :
          IF ok /\ loc[t].id \in DOMAIN fields
          THEN /\ fields' = Without(fields, loc[t].id)
               /\ loc' = [loc EXCEPT ![t].dbOk = TRUE]
               /\ deleted' = [deleted EXCEPT !.standard_fields = @ \cup {loc[t].id}]
               /\ Reply(t, 204, <<>>, FALSE)
          ELSE /\ loc' = [loc EXCEPT ![t].dbErr = ~ok]
               /\ Reply(t, IF ok THEN 404 ELSE 500, <<>>, ~ok)
               /\ UNCHANGED <<fields, deleted>>
    /\ UNCHANGED <<roots, rootSeq, fieldSeq, idx, vocab, locks, op>>

clear_all_fields_accept(t) ==
    /\ Accept(t, "clear_all_fields", "xf_truncate", InitLoc)
    /\ UNCHANGED <<db, idx, vocab, locks, resp, deleted>>

\* TRUNCATE TABLE standard_fields RESTART IDENTITY
clear_all_fields_truncate(t) ==
    /\ pc[t] = "xf_truncate"
    /\ \E ok \in BOOLEAN :
          IF ok
          THEN /\ fields' = Empty
               /\ fieldSeq' = 0
               /\ loc' = [loc EXCEPT ![t].dbOk = TRUE]
               /\ Goto(t, "xf_points")
               /\ UNCHANGED resp
          ELSE /\ loc' = [loc EXCEPT ![t].dbErr = TRUE]
               /\ Reply(t, 500, <<>>, TRUE)
               /\ UNCHANGED <<fields, fieldSeq>>
    /\ UNCHANGED <<roots, rootSeq, idx, vocab, locks, op, deleted>>

\* delete_points(... points(Filter::default())): Ok is 200, Err is 206
clear_all_fields_points(t) ==
    /\ pc[t] = "xf_points"
    /\ \E ok \in BOOLEAN :
          /\ idxFields' = IF ok THEN Empty ELSE idxFields
          /\ loc' = [loc EXCEPT ![t].idxTried = TRUE, ![t].idxOk = ok]
          /\ Reply(t, IF ok THEN 200 ELSE 206, <<>>, FALSE)
    /\ UNCHANGED <<db, idxRoots, vocab, locks, op, deleted>>

\* the first n elements of a sequence
Limit(seq, n) == IF Len(seq) <= n THEN seq ELSE SubSeq(seq, 1, n)

\* WHERE field_cn_name ILIKE $1 OR associated_terms ILIKE $1 LIMIT 10
Tier1Fields(q) ==
    LET q_pattern == <<"%">> \o q \o <<"%">>
        hit == {id \in DOMAIN fields :
                   \/ ILike(fields[id].field_cn_name, q_pattern)
                   \/ /\ fields[id].associated_terms /= None
                      /\ ILike(fields[id].associated_terms, q_pattern)}
        ids == Limit(SortedIds(hit), Tier1Limit)
    IN  [i \in DOMAIN ids |->
            [id |-> ids[i], field_cn_name |-> fields[ids[i]].field_cn_name,
             field_en_name |-> fields[ids[i]].field_en_name]]

\* the JSON objects search_field builds from the scored points
FieldHits(res) ==
    [i \in DOMAIN res |->
        [id |-> res[i].point.id, field_cn_name |-> res[i].point.cn_name,
         field_en_name |-> res[i].point.en_name, score |-> res[i].score]]

\* the RootSuggestion list search_similar_roots builds
RootSuggestions(res) ==
    [i \in DOMAIN res |->
        [id |-> res[i].point.id, cn_name |-> res[i].point.cn_name,
         en_abbr |-> res[i].point.en_abbr, score |-> res[i].score]]

search_field_accept(t) ==
    /\ \E q \in Queries :
          Accept(t, "search_field", "sf_sql",
                 [InitLoc EXCEPT
                    !.q = q, !.gone = deleted.standard_fields,
                    !.nameHit = \E id \in DOMAIN fields : fields[id].field_cn_name = q])
    /\ UNCHANGED <<db, idx, vocab, locks, resp, deleted>>

\* Tier 1: fetch_all(...).await.unwrap_or_default(); rows are returned at once
search_field_sql(t) ==
    /\ pc[t] = "sf_sql"
    /\ \E ok \in BOOLEAN :
          LET sql_results == IF ok THEN Tier1Fields(loc[t].q) ELSE <<>>
          IN  IF sql_results /= <<>>
              THEN /\ Reply(t, 200, sql_results, FALSE)
                   /\ UNCHANGED loc
              ELSE /\ loc' = [loc EXCEPT ![t].dbErr = ~ok, ![t].tier2 = TRUE]
                   /\ Goto(t, "sf_lock")
                   /\ UNCHANGED resp
    /\ UNCHANGED <<db, idx, vocab, locks, op, deleted>>

search_field_lock(t) ==
    /\ pc[t] = "sf_lock"
    /\ LockEmbed(t)
    /\ Goto(t, "sf_embed")
    /\ UNCHANGED <<db, idx, vocab, jiebaWriter, jiebaReaders, op, loc, resp, deleted>>

\* model.embed(vec![&query.q], None); on Err the empty list is the answer
search_field_embed(t) ==
    /\ pc[t] = "sf_embed"
    /\ \E ok \in BOOLEAN :
          IF ok
          THEN /\ loc' = [loc EXCEPT ![t].vec = Embed(loc[t].q), ![t].embedRan = TRUE]
               /\ Goto(t, "sf_search")
               /\ UNCHANGED <<resp, embedOwner>>
          ELSE /\ loc' = [loc EXCEPT ![t].embedRan = TRUE, ![t].embedErr = TRUE]
               /\ UnlockEmbed(t)
               /\ Reply(t, 200, <<>>, FALSE)
    /\ UNCHANGED <<db, idx, vocab, jiebaWriter, jiebaReaders, op, deleted>>

\* a search that asks for the limit of Tier 1
search_field_search_limit10(t) ==
    /\ pc[t] = "sf_search"
    /\ \E ok \in BOOLEAN :
          /\ loc' = [loc EXCEPT ![t].idxTried = TRUE, ![t].idxOk = ok]
          /\ Reply(t, 200,
                   IF ok THEN FieldHits(search_points(idxFields, loc[t].vec, Tier1Limit))
                   ELSE <<>>,
                   FALSE)
    /\ UnlockEmbed(t)
    /\ UNCHANGED <<db, idx, vocab, jiebaWriter, jiebaReaders, op, deleted>>

\* search_points("standard_fields", vector, 5); on Err the empty list is the answer
search_field_search(t) ==
    /\ pc[t] = "sf_search"
    /\ \E ok \in BOOLEAN :
          /\ loc' = [loc EXCEPT ![t].idxTried = TRUE, ![t].idxOk = ok]
          /\ Reply(t, 200,
                   IF ok THEN FieldHits(search_points(idxFields, loc[t].vec, TopK))
                   ELSE <<>>,
                   FALSE)
    /\ UnlockEmbed(t)
    /\ UNCHANGED <<db, idx, vocab, jiebaWriter, jiebaReaders, op, deleted>>

(***************************************************************************)
(* mapping_handler.rs and mapping_service.rs                               *)
(***************************************************************************)
\* search_similar_roots: a blank query is answered 400 before anything else
search_similar_roots_accept(t) ==
    /\ \E q \in Queries :
          LET input == Trim(q)
          IN  /\ Accept(t, "search_similar_roots",
                        IF input = <<>> THEN "done" ELSE "sr_lock",
                        [InitLoc EXCEPT
                           !.q = input, !.gone = deleted.word_roots, !.tier2 = input /= <<>>,
                           !.nameHit = \E id \in DOMAIN roots : roots[id].cn_name = input])
              /\ resp' = [resp EXCEPT ![t] =
                            IF input = <<>> THEN [code |-> 400, items |-> <<>>, error |-> TRUE]
                            ELSE NoResp]
    /\ UNCHANGED <<db, idx, vocab, locks, deleted>>

search_similar_roots_lock(t) ==
    /\ pc[t] = "sr_lock"
    /\ LockEmbed(t)
    /\ Goto(t, "sr_embed")
    /\ UNCHANGED <<db, idx, vocab, jiebaWriter, jiebaReaders, op, loc, resp, deleted>>

search_similar_roots_embed(t) ==
    /\ pc[t] = "sr_embed"
    /\ \E ok \in BOOLEAN :
          IF ok
          THEN /\ loc' = [loc EXCEPT ![t].vec = Embed(loc[t].q), ![t].embedRan = TRUE]
               /\ Goto(t, "sr_search")
               /\ UNCHANGED <<resp, embedOwner>>
          ELSE /\ loc' = [loc EXCEPT ![t].embedRan = TRUE, ![t].embedErr = TRUE]
               /\ UnlockEmbed(t)
               /\ Reply(t, 500, <<>>, TRUE)
    /\ UNCHANGED <<db, idx, vocab, jiebaWriter, jiebaReaders, op, deleted>>

search_similar_roots_search(t) ==
    /\ pc[t] = "sr_search"
    /\ \E ok \in BOOLEAN :
          /\ loc' = [loc EXCEPT ![t].idxTried = TRUE, ![t].idxOk = ok]
          /\ Reply(t, IF ok THEN 200 ELSE 500,
                   IF ok THEN RootSuggestions(search_points(idxRoots, loc[t].vec, TopK))
                   ELSE <<>>,
                   ~ok)
    /\ UnlockEmbed(t)
    /\ UNCHANGED <<db, idx, vocab, jiebaWriter, jiebaReaders, op, deleted>>

\* the rows of SELECT * FROM standard_word_roots
\* WHERE cn_name = $1 OR associated_terms ~* $2
RootMatches(word) ==
    {id \in DOMAIN roots :
        roots[id].cn_name = word \/ TermsMatch(roots[id].associated_terms, word)}

\* ... LIMIT 1, fetch_optional(pool).await.unwrap_or(None): any one of the rows,
\* and None (0) when there is none or the query failed
LookupRoot(ok, word) ==
    IF ok /\ RootMatches(word) /= {} THEN RootMatches(word) ELSE {0}

\* a loop without: if word.trim().is_empty() { continue; }
NextWordNoSkip(words, k) == IF k < Len(words) THEN k + 1 ELSE 0

\* the first index after k of a word that is not blank, or 0
NextWord(words, k) ==
    LET later == {i \in (k + 1)..Len(words) : ~IsBlank(words[i])}
    IN  IF later = {} THEN 0 ELSE CHOOSE i \in later : \A j \in later : i <= j

\* a None arm that pushes the word itself, not format!("[{}]", word)
suggest_field_name_match_bare(l, hit, abbr) ==
    LET word == l.words[l.k]
    IN  IF hit /= 0
        THEN [l EXCEPT !.parts = Append(@, abbr),
                       !.matched = Append(@, hit),
                       !.hits = Append(@, hit)]
        ELSE [l EXCEPT !.missing = Append(@, word),
                       !.parts = Append(@, word),
                       !.hits = Append(@, 0)]

\* match root { Some(r) => ..., None => ... } for the word at l.k
suggest_field_name_match(l, hit, abbr) ==
    LET word == l.words[l.k]
    IN  IF hit /= 0
        THEN [l EXCEPT !.parts = Append(@, abbr),
                       !.matched = Append(@, hit),
                       !.hits = Append(@, hit)]
        ELSE [l EXCEPT !.missing = Append(@, word),
                       !.parts = Append(@, <<"[">> \o word \o <<"]">>),
                       !.hits = Append(@, 0)]

\* (en_parts.join("_"), missing_words, matched_ids)
suggest_field_name_result(l) == <<Join(l.parts, <<"_">>), l.missing, l.matched>>

\* suggest_mapping: a blank query is answered 400 before anything else
SuggestQueries == {<<"a", "b">>, <<"b", " ", "a">>, <<" ">>}

suggest_mapping_accept(t) ==
    /\ \E q \in SuggestQueries :
          LET input == Trim(q)
          IN  /\ Accept(t, "suggest_mapping",
                        IF input = <<>> THEN "done" ELSE "sm_read",
                        [InitLoc EXCEPT
                           !.q = input,
                           !.quiet = \A u \in Tasks \ {t} : pc[u] \in {"idle", "done"}])
              /\ resp' = [resp EXCEPT ![t] =
                            IF input = <<>> THEN [code |-> 400, items |-> <<>>, error |-> TRUE]
                            ELSE NoResp]
    /\ UNCHANGED <<db, idx, vocab, locks, deleted>>

\* let jieba_read = crate::JIEBA.read().await; let words = jieba_read.cut(cn_input, false)
suggest_field_name_read(t) ==
    /\ pc[t] = "sm_read"
    /\ JiebaReadFree
    /\ jiebaReaders' = jiebaReaders \cup {t}
    /\ \E words \in {Cut(loc[t].q, vocab)} :
          loc' = [loc EXCEPT ![t].words = words, ![t].k = NextWord(words, 0)]
    /\ Goto(t, "sm_lookup")
    /\ UNCHANGED <<db, idx, vocab, jiebaWriter, embedOwner, op, resp, deleted>>

\* one turn of the loop: the query for the word, the match, and after the last word
\* the result, with which suggest_mapping answers 200
suggest_field_name_lookup(t) ==
    /\ pc[t] = "sm_lookup"
    /\ \E ok \in BOOLEAN :
       \E hit \in LookupRoot(ok, loc[t].words[loc[t].k]) :
          LET abbr == IF hit = 0 THEN <<>> ELSE roots[hit].en_abbr
              l1 == suggest_field_name_match(loc[t], hit, abbr)
              l == [l1 EXCEPT !.dbErr = @ \/ ~ok, !.k = NextWord(l1.words, l1.k)]
          IN  /\ loc' = [loc EXCEPT ![t] = l]
              /\ IF l.k /= 0
                 THEN UNCHANGED <<pc, resp, jiebaReaders>>
                 ELSE /\ jiebaReaders' = jiebaReaders \ {t}
                      /\ Reply(t, 200, suggest_field_name_result(l), FALSE)
    /\ UNCHANGED <<db, idx, vocab, jiebaWriter, embedOwner, op, deleted>>

(***************************************************************************)
(* field_handler.rs: get_field_details                                     *)
(***************************************************************************)
RECURSIVE UnnestJoin(_, _)
\* FROM UNNEST($1::INT[]) WITH ORDINALITY AS x(id, ord)
\* JOIN standard_word_roots r ON r.id = x.id ORDER BY x.ord
UnnestJoin(ids, rs) ==
    IF ids = <<>> THEN <<>>
    ELSE (IF Head(ids) \in DOMAIN rs
          THEN <<[id |-> Head(ids), root |-> rs[Head(ids)]]>> ELSE <<>>)
         \o UnnestJoin(Tail(ids), rs)

get_field_details_accept(t) ==
    /\ \E id \in Ids :
          Accept(t, "get_field_details", "gd_field", [InitLoc EXCEPT !.id = id])
    /\ UNCHANGED <<db, idx, vocab, locks, resp, deleted>>

\* SELECT composition_ids FROM standard_fields WHERE id = $1, fetch_optional
get_field_details_field(t) ==
    /\ pc[t] = "gd_field"
    /\ \E ok \in BOOLEAN :
          IF ~ok
          THEN /\ loc' = [loc EXCEPT ![t].dbErr = TRUE]
               /\ Reply(t, 500, <<>>, TRUE)
          ELSE IF loc[t].id \notin DOMAIN fields
          THEN /\ Reply(t, 404, <<>>, TRUE)
               /\ UNCHANGED loc
          ELSE LET ids == fields[loc[t].id].composition_ids
               IN  /\ loc' = [loc EXCEPT ![t].ids = ids, ![t].dbOk = TRUE]
                   /\ IF ids = <<>>
                      THEN Reply(t, 200, <<>>, FALSE)
                      ELSE Goto(t, "gd_roots") /\ UNCHANGED resp
    /\ UNCHANGED <<db, idx, vocab, locks, op, deleted>>

\* the query over UNNEST ... JOIN standard_word_roots, fetch_all
get_field_details_roots(t) ==
    /\ pc[t] = "gd_roots"
    /\ \E ok \in BOOLEAN :
          IF ok
          THEN /\ Reply(t, 200, UnnestJoin(loc[t].ids, roots), FALSE)
               /\ UNCHANGED loc
          ELSE /\ loc' = [loc EXCEPT ![t].dbErr = TRUE]
               /\ Reply(t, 500, <<>>, TRUE)
    /\ UNCHANGED <<db, idx, vocab, locks, op, deleted>>

(***************************************************************************)
(* The server: main() first, then the handlers run as concurrent tasks.    *)
(***************************************************************************)
Startup ==
    \/ init_custom_dictionary
    \/ sync_roots_fetch
    \/ sync_roots_lock
    \/ sync_roots_embed
    \/ sync_roots_upsert
    \/ sync_fields_fetch
    \/ sync_fields_lock
    \/ sync_fields_embed
    \/ sync_fields_upsert

RootHandlers(t) ==
    \/ create_root_accept(t)
    \/ create_root_insert(t)
    \/ create_root_jieba(t)
    \/ create_root_lock(t)
    \/ create_root_embed(t)
    \/ create_root_upsert(t)
    \/ batch_create_roots_accept(t)
    \/ batch_create_roots_lock(t)
    \/ batch_create_roots_embed(t)
    \/ batch_create_roots_insert(t)
    \/ batch_create_roots_jieba(t)
    \/ batch_create_roots_upsert(t)
    \/ update_root_accept(t)
    \/ update_root_update(t)
    \/ update_root_lock(t)
    \/ update_root_embed(t)
    \/ update_root_upsert(t)
    \/ delete_root_accept(t)
    \/ delete_root_delete(t)
    \/ delete_root_points(t)
    \/ clear_all_roots_accept(t)
    \/ clear_all_roots_truncate(t)
    \/ clear_all_roots_points(t)

FieldHandlers(t) ==
    \/ create_field_accept(t)
    \/ create_field_insert(t)
    \/ update_field_accept(t)
    \/ update_field_update(t)
    \/ delete_field_accept(t)
    \/ delete_field_delete(t)
    \/ clear_all_fields_accept(t)
    \/ clear_all_fields_truncate(t)
    \/ clear_all_fields_points(t)
    \/ search_field_accept(t)
    \/ search_field_sql(t)
    \/ search_field_lock(t)
    \/ search_field_embed(t)
    \/ search_field_search(t)

MappingHandlers(t) ==
    \/ search_similar_roots_accept(t)
    \/ search_similar_roots_lock(t)
    \/ search_similar_roots_embed(t)
    \/ search_similar_roots_search(t)
    \/ suggest_mapping_accept(t)
    \/ suggest_field_name_read(t)
    \/ suggest_field_name_lookup(t)

Next ==
    \/ Startup
    \/ \E t \in Tasks : RootHandlers(t) \/ FieldHandlers(t) \/ MappingHandlers(t)

Spec == Init /\ [][Next]_vars

(***************************************************************************)
(* resolve as a function of the phrase, the catalog and the vocabulary:    *)
(* one request of suggest_mapping on each catalog, vocabulary and phrase   *)
(* of the sets below, with queries that may fail.                          *)
(***************************************************************************)
RootB == [cn_name |-> <<"b">>, en_abbr |-> <<"B">>,
          en_full_name |-> None, associated_terms |-> <<"a">>]

\* catalogs: none, one, a token that two rows match (a), synonym lists
ResolveCatalogs ==
    {Empty,
     1 :> RootA,
     1 :> RootB,
     (1 :> RootA) @@ (2 :> RootB),
     (1 :> Normalized(RootAB)) @@ (2 :> RootA),
     (1 :> RootB) @@ (2 :> Normalized(RootAB))}
ResolveWords == {<<"a", "b">>, <<"b">>}
PhraseChars == {"a", "b", " ", "."}
Phrases ==
    {p \in UNION {[1..n -> PhraseChars] : n \in 1..MaxPhraseLen} :
        ~IsSpace(p[1]) /\ ~IsSpace(p[Len(p)])}

InitResolve ==
    /\ roots \in ResolveCatalogs
    /\ rootSeq = MaxOf(DOMAIN roots)
    /\ fields = Empty
    /\ fieldSeq = 0
    /\ idxRoots = Empty
    /\ idxFields = Empty
    /\ vocab \in SUBSET ResolveWords
    /\ jiebaWriter = 0
    /\ jiebaReaders = {}
    /\ embedOwner = 0
    /\ pc = [t \in {Main} \cup Tasks |->
                IF t = Main THEN "serving" ELSE IF t = 1 THEN "sm_read" ELSE "idle"]
    /\ op = [t \in {Main} \cup Tasks |->
                IF t = Main THEN "main" ELSE IF t = 1 THEN "suggest_mapping" ELSE "none"]
    /\ \E q \in Phrases :
          loc = [t \in {Main} \cup Tasks |->
                    IF t = 1 THEN [InitLoc EXCEPT !.q = q] ELSE InitLoc]
    /\ resp = [t \in {Main} \cup Tasks |-> NoResp]
    /\ deleted = [word_roots |-> {}, standard_fields |-> {}]

NextResolve ==
    \/ suggest_field_name_read(1)
    \/ suggest_field_name_lookup(1)

SpecResolve == InitResolve /\ [][NextResolve]_vars

(***************************************************************************)
(* Two resolve calls, one after the other, with the same phrase on the     *)
(* same catalog and vocabulary.                                            *)
(***************************************************************************)
InitTwice ==
    /\ roots \in ResolveCatalogs
    /\ rootSeq = MaxOf(DOMAIN roots)
    /\ fields = Empty
    /\ fieldSeq = 0
    /\ idxRoots = Empty
    /\ idxFields = Empty
    /\ vocab \in SUBSET ResolveWords
    /\ jiebaWriter = 0
    /\ jiebaReaders = {}
    /\ embedOwner = 0
    /\ pc = [t \in {Main} \cup Tasks |->
                IF t = Main THEN "serving" ELSE IF t \in {1, 2} THEN "sm_read" ELSE "idle"]
    /\ op = [t \in {Main} \cup Tasks |->
                IF t = Main THEN "main"
                ELSE IF t \in {1, 2} THEN "suggest_mapping" ELSE "none"]
    /\ \E q \in Phrases :
          loc = [t \in {Main} \cup Tasks |->
                    IF t \in {1, 2} THEN [InitLoc EXCEPT !.q = q] ELSE InitLoc]
    /\ resp = [t \in {Main} \cup Tasks |-> NoResp]
    /\ deleted = [word_roots |-> {}, standard_fields |-> {}]

NextTwice ==
    \/ suggest_field_name_read(1)
    \/ suggest_field_name_lookup(1)
    \/ pc[1] = "done" /\ suggest_field_name_read(2)
    \/ pc[1] = "done" /\ suggest_field_name_lookup(2)

SpecTwice == InitTwice /\ [][NextTwice]_vars

(***************************************************************************)
(* Tier 2 as a function of the query and the collections: one search on    *)
(* collections of up to MaxPoints points.                                  *)
(***************************************************************************)
MaxPoints == 6

\* the vector of point id in the collection of pattern m
SearchVec(id, m) == (id * m) % 5

SearchRoots(n, m) == [id \in 1..n |-> RootPoint(id, RootA, SearchVec(id, m))]
SearchFields(n, m) == [id \in 1..n |-> FieldPoint(id, FieldB, SearchVec(id, m))]

InitSearch ==
    /\ roots = Empty
    /\ rootSeq = 0
    /\ fields = Empty
    /\ fieldSeq = 0
    /\ \E n \in 0..MaxPoints, m \in 0..4 : idxRoots = SearchRoots(n, m)
    /\ \E n \in 0..MaxPoints, m \in 0..4 : idxFields = SearchFields(n, m)
    /\ vocab = {}
    /\ jiebaWriter = 0
    /\ jiebaReaders = {}
    /\ embedOwner = 0
    /\ \E h \in {"search_field", "search_similar_roots"}, q \in {<<"a">>, <<"b", "b">>} :
          /\ pc = [t \in {Main} \cup Tasks |->
                      IF t = Main THEN "serving"
                      ELSE IF t /= 1 THEN "idle"
                      ELSE IF h = "search_field" THEN "sf_sql" ELSE "sr_lock"]
          /\ op = [t \in {Main} \cup Tasks |->
                      IF t = Main THEN "main" ELSE IF t = 1 THEN h ELSE "none"]
          /\ loc = [t \in {Main} \cup Tasks |->
                      IF t = 1
                      THEN [InitLoc EXCEPT !.q = q, !.tier2 = h = "search_similar_roots"]
                      ELSE InitLoc]
    /\ resp = [t \in {Main} \cup Tasks |-> NoResp]
    /\ deleted = [word_roots |-> {}, standard_fields |-> {}]

NextSearch ==
    \/ search_field_sql(1)
    \/ search_field_lock(1)
    \/ search_field_embed(1)
    \/ search_field_search(1)
    \/ search_similar_roots_lock(1)
    \/ search_similar_roots_embed(1)
    \/ search_similar_roots_search(1)

SpecSearch == InitSearch /\ [][NextSearch]_vars

(***************************************************************************)
(* Properties.                                                             *)
(***************************************************************************)
Done(t) == pc[t] = "done"

\* the tasks whose model.embed(...) is running
EmbedPcs == {"sync_roots_embed", "sync_fields_embed", "cr_embed", "bc_embed",
             "ur_embed", "sf_embed", "sr_embed"}
\* the tasks waiting in state.embed_model.lock().await
LockPcs == {"sync_roots_lock", "sync_fields_lock", "cr_lock", "bc_lock",
            "ur_lock", "sf_lock", "sr_lock"}

Embedding == {t \in {Main} \cup Tasks : pc[t] \in EmbedPcs}

\* C1: at most one task executes an embedding computation at any moment, it is
\* the task that holds the embedding lock, and a task that asks for the lock
\* while another holds it stays where it is until the lock is free.
C1_OneEmbeddingAtATime ==
    /\ [](Cardinality(Embedding) <= 1 /\ \A t \in Embedding : embedOwner = t)
    /\ [][\A t \in Tasks :
             (pc[t] \in LockPcs /\ embedOwner /= 0) => pc'[t] = pc[t]]_vars

\* C1: one task computes an embedding while another waits for the lock
C1_Witness ==
    \E t, u \in Tasks : t /= u /\ pc[t] \in EmbedPcs /\ pc[u] \in LockPcs

Searches == {"search_field", "search_similar_roots"}
Mutations == {"create_root", "batch_create_roots", "update_root", "delete_root",
              "clear_all_roots", "create_field", "update_field", "delete_field",
              "clear_all_fields"}

\* the status a handler answers with when the catalog and the mirror both succeeded
FullSuccess(h) ==
    CASE h \in {"create_root", "create_field"} -> 201
      [] h \in {"delete_root", "delete_field"} -> 204
      [] OTHER -> 200

\* the embedding or the index call of the request failed
MirrorFailed(t) == loc[t].embedErr \/ (loc[t].idxTried /\ ~loc[t].idxOk)

\* C2: a mutation that committed its catalog write while its mirror update
\* failed (the embedding or the index call) answers with a status other than
\* the one of full success.
C2_PartialSyncReported ==
    \A t \in Tasks :
        (Done(t) /\ op[t] \in Mutations /\ loc[t].dbOk /\ MirrorFailed(t))
            => resp[t].code /= FullSuccess(op[t])

\* C3: every successful catalog create, update or delete of either kind is
\* followed, in the same request, by an attempt to upsert or delete the point.
C3_MirrorAttempted ==
    \A t \in Tasks :
        (Done(t) /\ loc[t].dbOk
         /\ op[t] \in {"create_root", "update_root", "delete_root",
                       "create_field", "update_field", "delete_field"})
            => loc[t].idxTried

\* the ids a finished search returned
ReturnedIds(t) == {resp[t].items[i].id : i \in DOMAIN resp[t].items}

Collection(h) == IF h = "search_field" THEN "standard_fields" ELSE "word_roots"

\* C4: a search that starts after the delete of an id was answered returns no
\* result with that id (unless the id was created again).
C4_DeletedNeverReturned ==
    \A t \in Tasks :
        (Done(t) /\ op[t] \in Searches /\ resp[t].code = 200)
            => ReturnedIds(t) \cap loc[t].gone \cap deleted[Collection(op[t])] = {}

\* C5: a search whose query is the canonical name of an entry of the catalog
\* (no other request running) never takes the embedding lock nor embeds, and
\* answers with a non-empty result.
C5_ExactNameNeverEmbeds ==
    \A t \in Tasks :
        (op[t] \in Searches /\ loc[t].nameHit /\ \A u \in Tasks \ {t} : pc[u] = "idle")
            => /\ embedOwner /= t
               /\ ~loc[t].embedRan
               /\ Done(t) => resp[t].items /= <<>>

\* C6: when the Tier 1 query fails, Tier 2 is not entered and the search
\* answers with an error.
C6_Tier1FailureIsHardError ==
    \A t \in Tasks :
        (op[t] = "search_field" /\ loc[t].dbErr)
            => /\ ~loc[t].tier2
               /\ Done(t) => resp[t].error

\* C7: when the embedding or the index call of Tier 2 fails, the search answers
\* with an empty result and an error signal.
C7_Tier2FailureSignalled ==
    \A t \in Tasks :
        (Done(t) /\ op[t] \in Searches /\ loc[t].tier2 /\ MirrorFailed(t))
            => resp[t].items = <<>> /\ resp[t].error

\* C8: a failed catalog query during resolve makes the call fail; it is not
\* reported as a miss.
C8_CatalogFailureIsHardError ==
    \A t \in Tasks :
        (Done(t) /\ op[t] = "suggest_mapping" /\ loc[t].dbErr) => resp[t].error

\* the elements of seq at the indices, in order
RECURSIVE Pick(_, _)
Pick(seq, indices) ==
    IF indices = <<>> THEN <<>>
    ELSE <<seq[Head(indices)]>> \o Pick(seq, Tail(indices))

\* the tokens of the phrase that are not blank, in order
Tokens(t) ==
    LET words == Cut(loc[t].q, vocab)
    IN  Pick(words, SortedIds({i \in DOMAIN words : ~IsBlank(words[i])}))

Resolved(t) == Done(t) /\ op[t] = "suggest_mapping" /\ resp[t].code = 200

\* C9: matchedIds.length + missing.length is the number of non-blank tokens
\* the segmentation of the phrase gives.
C9_MatchedPlusMissing ==
    \A t \in Tasks :
        Resolved(t) => Len(resp[t].items[3]) + Len(resp[t].items[2]) = Len(Tokens(t))

\* C9: a resolve with a blank token, a matched token and a missing one
C9_Witness ==
    \E t \in Tasks :
        /\ Resolved(t)
        /\ Len(Tokens(t)) < Len(Cut(loc[t].q, vocab))
        /\ resp[t].items[2] /= <<>>
        /\ resp[t].items[3] /= <<>>

\* C10: the i-th part of the identifier is the abbreviation of the root the
\* i-th token matched, or [token]; the identifier is the parts joined with _;
\* matchedIds are the matched ids and missing the unmatched tokens, in order.
C10_PositionalOutput ==
    \A t \in Tasks :
        Resolved(t) =>
            LET toks == Tokens(t)
                hits == loc[t].hits
                n == Len(toks)
                part(i) == IF hits[i] /= 0 THEN roots[hits[i]].en_abbr
                           ELSE <<"[">> \o toks[i] \o <<"]">>
            IN  /\ Len(hits) = n
                /\ \A i \in 1..n : hits[i] /= 0 => hits[i] \in RootMatches(toks[i])
                /\ \A i \in 1..n :
                      (hits[i] = 0 /\ ~loc[t].dbErr) => RootMatches(toks[i]) = {}
                /\ resp[t].items[1] = Join([i \in 1..n |-> part(i)], <<"_">>)
                /\ resp[t].items[3] = Pick(hits, SortedIds({i \in 1..n : hits[i] /= 0}))
                /\ resp[t].items[2] = Pick(toks, SortedIds({i \in 1..n : hits[i] = 0}))

\* C10: with a -> A known and b unknown, resolve("ab") gives A_[b] and missing [b]
C10_Witness ==
    \E t \in Tasks :
        /\ Resolved(t)
        /\ loc[t].q = <<"a", "b">>
        /\ resp[t].items[1] = <<"A", "_", "[", "b", "]">>
        /\ resp[t].items[2] = <<(<<"b">>)>>
        /\ resp[t].items[3] /= <<>>

\* the sequences of ids of roots whose canonical names, one after the other,
\* make up the phrase
NameSeqs(q) ==
    {s \in UNION {[1..n -> DOMAIN roots] : n \in 1..Len(q)} :
        Join([i \in DOMAIN s |-> roots[s[i]].cn_name], <<>>) = q}

\* no other request runs while, or has run since, request t was accepted
Alone(t) ==
    /\ loc[t].quiet
    /\ \A u \in Tasks \ {t} : pc[u] \in {"idle", "done"}
    /\ \A u \in Tasks : u > t => pc[u] = "idle"

\* C11: for a phrase that is a concatenation of canonical names of roots of the
\* catalog, resolve returns an empty missing list and the abbreviations of
\* those roots joined with _, in the order of the names.
C11_ExactNamesResolve ==
    \A t \in Tasks :
        (Resolved(t) /\ Alone(t) /\ ~loc[t].dbErr /\ NameSeqs(loc[t].q) /= {})
            => /\ resp[t].items[2] = <<>>
               /\ \E s \in NameSeqs(loc[t].q) :
                     resp[t].items[1] =
                        Join([i \in DOMAIN s |-> roots[s[i]].en_abbr], <<"_">>)

\* the token is, literally, one of the whitespace-separated words of the list
SynonymWord(terms, tok) ==
    /\ terms /= None
    /\ \E k \in DOMAIN split_whitespace(terms) : split_whitespace(terms)[k] = tok

\* the roots a token stands for: by canonical name or by a synonym word
Meant(tok) ==
    {id \in DOMAIN roots :
        roots[id].cn_name = tok \/ SynonymWord(roots[id].associated_terms, tok)}

\* C12: a token matches a root through the synonym list iff the token, taken
\* literally and whole, is one of the whitespace-separated words of the list.
C12_SynonymWholeWordLiteral ==
    \A t \in Tasks :
        (Resolved(t) /\ ~loc[t].dbErr) =>
            LET toks == Tokens(t)
                hits == loc[t].hits
            IN  \A i \in 1..Len(toks) :
                    IF hits[i] /= 0 THEN hits[i] \in Meant(toks[i])
                    ELSE Meant(toks[i]) = {}

\* C13: two resolve calls with the same phrase on the same catalog and
\* vocabulary, none of whose lookups failed, return the same identifier and
\* the same matchedIds.
C13_ResolveDeterministic ==
    (/\ Resolved(1) /\ Resolved(2)
     /\ loc[1].q = loc[2].q
     /\ ~loc[1].dbErr /\ ~loc[2].dbErr)
        => /\ resp[1].items[1] = resp[2].items[1]
           /\ resp[1].items[3] = resp[2].items[3]

\* the word a task waiting in JIEBA.write().await is about to add
Adding(u) ==
    IF pc[u] = "cr_jieba" THEN loc[u].root.cn_name ELSE loc[u].items[loc[u].k].cn_name

\* C14: a writer of the vocabulary excludes the readers and the other writers,
\* and the segmentation a resolve call works with is the one of the dictionary
\* as it is while the call holds its read guard: no add_word happens in between.
C14_VocabularySnapshots ==
    /\ [](jiebaWriter /= 0 => jiebaReaders = {})
    /\ [](\A t \in jiebaReaders : loc[t].words = Cut(loc[t].q, vocab))
    /\ [][vocab' /= vocab => (jiebaWriter = 0 /\ jiebaReaders = {})]_vars

\* C14: a resolve call holds the read guard while a create or an import waits
\* to add a word that would change the call's segmentation
C14_Witness ==
    \E t, u \in Tasks :
        /\ t \in jiebaReaders
        /\ pc[u] \in {"cr_jieba", "bc_jieba"}
        /\ Cut(loc[t].q, vocab \cup {Adding(u)}) /= Cut(loc[t].q, vocab)

\* the steps that embed for, or write to, the mirror after the catalog write
MirrorPcs == {"cr_embed", "cr_upsert", "ur_embed", "ur_upsert", "dr_points",
              "bc_upsert", "xr_points", "xf_points"}

\* the catalog holds what the finished mutation of t wrote
PostMutation(t) ==
    CASE op[t] \in {"create_root", "update_root"} ->
            loc[t].id \in DOMAIN roots /\ roots[loc[t].id] = loc[t].root
      [] op[t] = "delete_root" -> loc[t].id \notin DOMAIN roots
      [] op[t] = "clear_all_roots" -> roots = Empty
      [] op[t] = "clear_all_fields" -> fields = Empty
      [] OTHER -> TRUE

\* C15: no step of the mirror update changes the catalog, whether it fails or
\* not, and after a mutation whose catalog statement succeeded the row is in
\* its post-mutation state (no other request having run).
C15_CatalogWriteKept ==
    /\ [][\A t \in Tasks :
             (pc[t] \in MirrorPcs /\ pc'[t] /= pc[t])
                => (roots' = roots /\ fields' = fields)]_vars
    /\ [](\A t \in Tasks :
             (Done(t) /\ loc[t].dbOk /\ \A u \in Tasks \ {t} : pc[u] = "idle")
                => PostMutation(t))

\* C15: a create whose upsert failed has answered, and its row is in the catalog
C15_Witness ==
    \E t \in Tasks :
        /\ Done(t) /\ op[t] = "create_root" /\ loc[t].dbOk
        /\ loc[t].idxTried /\ ~loc[t].idxOk
        /\ \A u \in Tasks \ {t} : pc[u] = "idle"
        /\ loc[t].id \in DOMAIN roots /\ roots[loc[t].id] = loc[t].root

\* C16: a mutation of word roots whose embedding failed has still made its
\* catalog write or writes (unless the catalog statement itself failed).
C16_EmbeddingFailureKeepsWrite ==
    \A t \in Tasks :
        (/\ Done(t)
         /\ op[t] \in {"create_root", "update_root", "batch_create_roots"}
         /\ loc[t].embedErr)
            => loc[t].dbOk

\* main() has finished both syncs and no request has been accepted yet
Resynced == pc[Main] = "serving" /\ \A t \in Tasks : pc[t] = "idle"

\* C17: after the resync of both collections, every row of the catalog has a
\* point with its id whose vector and payload come from the row as it is.
C17_ResyncMirrorsCatalog ==
    Resynced =>
        /\ \A id \in DOMAIN roots :
              /\ id \in DOMAIN idxRoots
              /\ idxRoots[id] = RootPoint(id, roots[id], Embed(RootText(roots[id])))
        /\ \A id \in DOMAIN fields :
              /\ id \in DOMAIN idxFields
              /\ idxFields[id] = FieldPoint(id, fields[id], Embed(FieldText(fields[id])))

\* the steps that add a word to the vocabulary
AddWordPcs == {"cr_jieba", "bc_jieba"}

\* C18: a request writes to the index or adds a word to the vocabulary only
\* after its catalog statement succeeded: a request whose statement failed, or
\* whose delete affected no row, changes neither.
C18_MirrorOnlyAfterCatalogWrite ==
    /\ [][\A t \in Tasks :
             (/\ pc'[t] /= pc[t]
              /\ (idxRoots' /= idxRoots \/ idxFields' /= idxFields \/ vocab' /= vocab))
                => loc[t].dbOk]_vars
    /\ [](\A t \in Tasks :
             /\ (op[t] \in Mutations /\ loc[t].idxTried) => loc[t].dbOk
             /\ pc[t] \in MirrorPcs \cup AddWordPcs => loc[t].dbOk
             /\ op[t] = "batch_create_roots"
                   => Cardinality(DOMAIN loc[t].points) <= loc[t].success)

\* C18: a delete that affected no row has answered 404 and the point with
\* that id is still in the index
C18_Witness ==
    \E t \in Tasks :
        /\ Done(t) /\ op[t] = "delete_root" /\ resp[t].code = 404
        /\ ~loc[t].idxTried
        /\ loc[t].id \in DOMAIN idxRoots

\* the collection a search works on
Index(h) == IF h = "search_field" THEN idxFields ELSE idxRoots

\* C19: a Tier 2 that succeeded returns at most 5 results, by non-increasing
\* score, each with the id, the names and the score of a point of the
\* collection the search is on.
C19_Tier2TopFiveOrdered ==
    \A t \in Tasks :
        (Done(t) /\ op[t] \in Searches /\ loc[t].tier2 /\ loc[t].idxTried /\ loc[t].idxOk)
            => LET items == resp[t].items
                   coll == Index(op[t])
               IN  /\ Len(items) <= TopK
                   /\ \A i \in 1..Len(items) - 1 : items[i].score >= items[i + 1].score
                   /\ \A i, j \in 1..Len(items) : items[i].id = items[j].id => i = j
                   /\ \A i \in 1..Len(items) :
                         /\ items[i].id \in DOMAIN coll
                         /\ items[i].score = Score(coll[items[i].id].vec, Embed(loc[t].q))
                         /\ IF op[t] = "search_field"
                            THEN /\ items[i].field_cn_name = coll[items[i].id].cn_name
                                 /\ items[i].field_en_name = coll[items[i].id].en_name
                            ELSE /\ items[i].cn_name = coll[items[i].id].cn_name
                                 /\ items[i].en_abbr = coll[items[i].id].en_abbr

\* C19: a search of the fields on a collection of more than 5 points has
\* returned 5 results whose scores differ
C19_Witness ==
    \E t \in Tasks :
        /\ Done(t) /\ op[t] = "search_field" /\ loc[t].idxTried /\ loc[t].idxOk
        /\ Cardinality(DOMAIN idxFields) > TopK
        /\ Len(resp[t].items) = TopK
        /\ resp[t].items[1].score > resp[t].items[TopK].score

\* the handlers that take a query text
QueryHandlers == {"suggest_mapping", "search_field", "search_similar_roots"}

\* C20: resolve and the two searches answer a query that is empty or blank
\* with a validation error, before any access to the catalog, the embedding
\* lock or the index.
C20_BlankQueryRejected ==
    \A t \in Tasks :
        (Done(t) /\ op[t] \in QueryHandlers /\ IsBlank(loc[t].q))
            => /\ resp[t].code = 400
               /\ resp[t].error
               /\ ~loc[t].tier2 /\ ~loc[t].embedRan /\ ~loc[t].idxTried

\* the operations that embed a batch: the import, and the two syncs of main()
BatchOps == {"batch_create_roots", "main"}

\* C21: a batch operation takes the embedding lock once for the whole batch:
\* it never takes the lock again after the batch was embedded, and the one
\* embedding under the lock gives the vectors of all the items.
C21_BatchLocksOnce ==
    /\ [][\A t \in {Main} \cup Tasks :
             (op[t] \in BatchOps /\ embedOwner /= t /\ embedOwner' = t)
                => ~loc[t].embedRan]_vars
    /\ [](\A t \in Tasks :
             (op[t] = "batch_create_roots" /\ loc[t].embedRan /\ ~loc[t].embedErr)
                => Len(loc[t].vecs) = Len(loc[t].items))

\* C21: an import of two items has inserted both
C21_Witness ==
    \E t \in Tasks :
        /\ Done(t) /\ op[t] = "batch_create_roots"
        /\ Len(loc[t].items) >= 2
        /\ loc[t].success = Len(loc[t].items)
        /\ loc[t].embedRan /\ embedOwner /= t

\* the Morpheme operations that never call add_word
NoAddWordOps == {"update_root", "delete_root", "clear_all_roots"}

\* C22: the custom dictionary only grows: no step removes a word, and the
\* steps of update_root, delete_root and clear_all_roots leave it unchanged.
C22_VocabularyOnlyGrows ==
    [][/\ vocab \subseteq vocab'
       /\ \A t \in Tasks :
             (op'[t] \in NoAddWordOps /\ pc'[t] /= pc[t]) => vocab' = vocab]_vars

\* C22: a delete or a clear-all has removed the row, and the word of a root
\* that is no longer in the table is still in the dictionary
C22_Witness ==
    \E t \in Tasks :
        /\ Done(t) /\ op[t] \in {"delete_root", "clear_all_roots"}
        /\ loc[t].dbOk
        /\ \E w \in vocab : \A id \in DOMAIN roots : roots[id].cn_name /= w

(***************************************************************************)
(* Concurrent create_root, update_root and delete_root requests on a server *)
(* whose startup went through: the dictionary holds the names of the rows   *)
(* and the word_roots collection holds the point of every row.              *)
(***************************************************************************)
\* the points sync_roots_to_qdrant derives from the rows
RootMirror(rs) ==
    [id \in DOMAIN rs |-> RootPoint(id, rs[id], Embed(RootText(rs[id])))]

InitMutate ==
    /\ roots \in InitRoots
    /\ rootSeq = MaxOf(DOMAIN roots)
    /\ fields = Empty
    /\ fieldSeq = 0
    /\ idxRoots = RootMirror(roots)
    /\ idxFields = Empty
    /\ vocab = {roots[id].cn_name : id \in DOMAIN roots}
    /\ jiebaWriter = 0
    /\ jiebaReaders = {}
    /\ embedOwner = 0
    /\ pc = [t \in {Main} \cup Tasks |-> IF t = Main THEN "serving" ELSE "idle"]
    /\ op = [t \in {Main} \cup Tasks |-> IF t = Main THEN "main" ELSE "none"]
    /\ loc = [t \in {Main} \cup Tasks |-> InitLoc]
    /\ resp = [t \in {Main} \cup Tasks |-> NoResp]
    /\ deleted = [word_roots |-> {}, standard_fields |-> {}]

NextMutate ==
    \E t \in Tasks :
        \/ create_root_accept(t)
        \/ create_root_insert(t)
        \/ create_root_jieba(t)
        \/ create_root_lock(t)
        \/ create_root_embed(t)
        \/ create_root_upsert(t)
        \/ update_root_accept(t)
        \/ update_root_update(t)
        \/ update_root_lock(t)
        \/ update_root_embed(t)
        \/ update_root_upsert(t)
        \/ delete_root_accept(t)
        \/ delete_root_delete(t)
        \/ delete_root_points(t)

SpecMutate == InitMutate /\ [][NextMutate]_vars

\* no store, embedding or index call of the request failed
FailureFree(t) ==
    ~loc[t].dbErr /\ ~loc[t].embedErr /\ (loc[t].idxTried => loc[t].idxOk)

\* C23: once concurrent create, update and delete requests that met no
\* failure have all completed, the word_roots collection holds exactly the
\* points derived from the final rows of standard_word_roots.
C23_MirrorMatchesCatalog ==
    (\A t \in Tasks : Done(t) /\ FailureFree(t)) => idxRoots = RootMirror(roots)

\* create_root between add_word and its answer: waiting for the embedding
\* lock, embedding, or in upsert_points
AfterAddWordPcs == {"cr_lock", "cr_embed", "cr_upsert"}

\* C24: the JIEBA lock is held for the dictionary operation only: no task
\* holds the write guard while it waits for the embedding lock, embeds or
\* calls the index, and no task holds the read guard while it is suspended
\* on a catalog lookup.
C24_VocabularyLockScope ==
    \A t \in Tasks :
        /\ jiebaWriter = t => pc[t] \notin AfterAddWordPcs
        /\ t \in jiebaReaders => pc[t] /= "sm_lookup"

\* the request paths at their Qdrant call
IndexCallPcs == {"cr_upsert", "ur_upsert", "sf_search", "sr_search"}

\* C25: the embedding lock is held for the embedding computation only: no
\* request holds it while its upsert_points or search_points call is running.
C25_EmbedLockScope ==
    \A t \in Tasks : embedOwner = t => pc[t] \notin IndexCallPcs

(***************************************************************************)
(* The running server under the scheduling of the tokio runtime: startup    *)
(* went through, a task that can take its next step is eventually polled,   *)
(* and the store, the index and the model return.  Whether a request        *)
(* arrives is left open.                                                    *)
(***************************************************************************)
\* the points sync_fields_to_qdrant derives from the rows
FieldMirror(fs) ==
    [id \in DOMAIN fs |-> FieldPoint(id, fs[id], Embed(FieldText(fs[id])))]

InitServe ==
    /\ roots \in InitRoots
    /\ rootSeq = MaxOf(DOMAIN roots)
    /\ fields \in InitFields
    /\ fieldSeq = MaxOf(DOMAIN fields)
    /\ idxRoots = RootMirror(roots)
    /\ idxFields = FieldMirror(fields)
    /\ vocab = {roots[id].cn_name : id \in DOMAIN roots}
    /\ jiebaWriter = 0
    /\ jiebaReaders = {}
    /\ embedOwner = 0
    /\ pc = [t \in {Main} \cup Tasks |-> IF t = Main THEN "serving" ELSE "idle"]
    /\ op = [t \in {Main} \cup Tasks |-> IF t = Main THEN "main" ELSE "none"]
    /\ loc = [t \in {Main} \cup Tasks |-> InitLoc]
    /\ resp = [t \in {Main} \cup Tasks |-> NoResp]
    /\ deleted = [word_roots |-> {}, standard_fields |-> {}]

\* a step of the request that task t serves
Step(t) == pc[t] /= "idle" /\ (RootHandlers(t) \/ FieldHandlers(t) \/ MappingHandlers(t))

NextServe ==
    \E t \in Tasks : RootHandlers(t) \/ FieldHandlers(t) \/ MappingHandlers(t)

FairServe == InitServe /\ [][NextServe]_vars /\ \A t \in Tasks : WF_vars(Step(t))

\* the tasks that hold what t is waiting for
WaitsFor(t) ==
    (IF pc[t] \in LockPcs /\ embedOwner \notin {0, t} THEN {embedOwner} ELSE {})
    \cup (IF pc[t] \in AddWordPcs
          THEN (jiebaReaders \cup {jiebaWriter}) \ {0, t} ELSE {})
    \cup (IF pc[t] = "sm_read" THEN {jiebaWriter} \ {0, t} ELSE {})

RECURSIVE WaitChain(_, _)
\* the tasks t waits for, directly or through n further tasks
WaitChain(t, n) ==
    IF n = 0 THEN WaitsFor(t)
    ELSE WaitsFor(t) \cup UNION {WaitChain(u, n - 1) : u \in WaitsFor(t)}

HoldsLock(t) == embedOwner = t \/ jiebaWriter = t \/ t \in jiebaReaders

\* C26: no set of tasks waits in a cycle on the JIEBA lock and the embedding
\* lock, a request that has answered holds no lock, and under fair scheduling
\* every accepted request eventually answers.
C26_NoDeadlock ==
    /\ [](\A t \in {Main} \cup Tasks : t \notin WaitChain(t, NumTasks))
    /\ [](\A t \in Tasks : Done(t) => ~HoldsLock(t))
    /\ \A t \in Tasks : (pc[t] /= "idle") ~> Done(t)

\* C26: a create_root holds the write guard and waits for the embedding lock
\* that another request holds
C26_Witness ==
    \E t, u \in Tasks :
        /\ t /= u
        /\ pc[t] = "cr_lock" /\ jiebaWriter = t
        /\ embedOwner = u /\ WaitsFor(t) = {u}

\* the running server without a fairness condition
SpecServe == InitServe /\ [][NextServe]_vars

RootMutationOps == {"create_root", "batch_create_roots", "update_root",
                    "delete_root", "clear_all_roots"}

\* a Morpheme mutation has been accepted and has not answered yet
RootMutationInFlight ==
    \E t \in Tasks : op[t] \in RootMutationOps /\ ~Done(t)

\* C27: whenever no Morpheme mutation is in flight, the cn_name of every row
\* of standard_word_roots is a word of the custom dictionary.
C27_NamesInVocabulary ==
    ~RootMutationInFlight => \A id \in DOMAIN roots : roots[id].cn_name \in vocab

(***************************************************************************)
(* A restart.  Qdrant is a server of its own and keeps its collections:     *)
(* init_qdrant_collections creates a collection only if it does not exist,  *)
(* so main() finds the points that earlier runs left, among them points     *)
(* whose row was deleted while delete_points failed.                        *)
(***************************************************************************)
\* the rows an earlier run may have mirrored
PriorRoots ==
    {[id \in S |-> Normalized(IF id = 1 THEN RootA ELSE RootAB)] : S \in SUBSET Ids}
PriorFields == {[id \in S |-> IF id = 1 THEN FieldAB ELSE FieldB] : S \in SUBSET Ids}

InitResync ==
    /\ roots \in InitRoots
    /\ rootSeq = MaxOf(DOMAIN roots)
    /\ fields \in InitFields
    /\ fieldSeq = MaxOf(DOMAIN fields)
    /\ idxRoots \in {RootMirror(rs) : rs \in PriorRoots}
    /\ idxFields \in {FieldMirror(fs) : fs \in PriorFields}
    /\ vocab = {}
    /\ jiebaWriter = 0
    /\ jiebaReaders = {}
    /\ embedOwner = 0
    /\ pc = [t \in {Main} \cup Tasks |-> IF t = Main THEN "init_dict" ELSE "idle"]
    /\ op = [t \in {Main} \cup Tasks |-> IF t = Main THEN "main" ELSE "none"]
    /\ loc = [t \in {Main} \cup Tasks |-> InitLoc]
    /\ resp = [t \in {Main} \cup Tasks |-> NoResp]
    /\ deleted = [word_roots |-> {}, standard_fields |-> {}]

NextResync ==
    \/ init_custom_dictionary
    \/ sync_roots_fetch
    \/ sync_roots_lock
    \/ sync_roots_embed
    \/ sync_roots_upsert
    \/ sync_fields_fetch
    \/ sync_fields_lock
    \/ sync_fields_embed
    \/ sync_fields_upsert

SpecResync == InitResync /\ [][NextResync]_vars

\* C28: once the startup resync has completed, with no request running, no
\* collection holds a point whose id is absent from its table.
C28_ResyncDropsStalePoints ==
    Resynced => /\ DOMAIN idxRoots \subseteq DOMAIN roots
                /\ DOMAIN idxFields \subseteq DOMAIN fields

\* C29: a Morpheme id is never given to another Morpheme: the id of a newly
\* inserted row is never the key of a point that word_roots already holds
\* (on the running server every such point was written for an earlier row).
C29_IdsNeverReassigned ==
    [][\A id \in DOMAIN roots' \ DOMAIN roots : id \notin DOMAIN idxRoots]_vars

(***************************************************************************)
(* get_field_details on a field whose composition is any sequence of ids,  *)
(* next to delete_root requests on the roots it names.                     *)
(***************************************************************************)
MaxComp == 3

RECURSIVE IdSeqs(_)
\* the sequences of ids of length n or less
IdSeqs(n) ==
    IF n = 0 THEN {<<>>}
    ELSE IdSeqs(n - 1) \cup {Append(c, id) : c \in IdSeqs(n - 1), id \in Ids}

InitDetails ==
    /\ roots = [id \in Ids |-> Normalized(IF id = 1 THEN RootA ELSE RootAB)]
    /\ rootSeq = MaxId
    /\ \E c \in IdSeqs(MaxComp) : fields = 1 :> [FieldAB EXCEPT !.composition_ids = c]
    /\ fieldSeq = 1
    /\ idxRoots = RootMirror(roots)
    /\ idxFields = FieldMirror(fields)
    /\ vocab = {roots[id].cn_name : id \in DOMAIN roots}
    /\ jiebaWriter = 0
    /\ jiebaReaders = {}
    /\ embedOwner = 0
    /\ pc = [t \in {Main} \cup Tasks |-> IF t = Main THEN "serving" ELSE "idle"]
    /\ op = [t \in {Main} \cup Tasks |-> IF t = Main THEN "main" ELSE "none"]
    /\ loc = [t \in {Main} \cup Tasks |-> InitLoc]
    /\ resp = [t \in {Main} \cup Tasks |-> NoResp]
    /\ deleted = [word_roots |-> {}, standard_fields |-> {}]

NextDetails ==
    \E t \in Tasks :
        \/ get_field_details_accept(t)
        \/ get_field_details_field(t)
        \/ get_field_details_roots(t)
        \/ delete_root_accept(t)
        \/ delete_root_delete(t)
        \/ delete_root_points(t)

SpecDetails == InitDetails /\ [][NextDetails]_vars

\* C30: get_field_details answers not-found for a field that does not exist,
\* and for a field that exists it answers with one Morpheme for every id of
\* composition_ids, position by position (the empty list for the empty
\* sequence).
C30_DetailsFollowComposition ==
    \A t \in Tasks :
        (Done(t) /\ op[t] = "get_field_details" /\ ~loc[t].dbErr) =>
            IF loc[t].id \notin DOMAIN fields
            THEN resp[t].code = 404
            ELSE LET ids == fields[loc[t].id].composition_ids
                 IN  /\ resp[t].code = 200
                     /\ Len(resp[t].items) = Len(ids)
                     /\ \A i \in 1..Len(ids) : resp[t].items[i].id = ids[i]

(***************************************************************************)
(* Tier 1 of search_field on its own: one request at its SELECT, over       *)
(* tables of up to Tier1Limit + 1 rows and query texts that may hold the    *)
(* characters % and _.                                                      *)
(***************************************************************************)
\* Query<SuggestQuery>.q: the texts of one or two characters
Tier1Chars == {"a", "b", "_", "%"}
Tier1Queries ==
    {<<c>> : c \in Tier1Chars} \cup {<<c, d>> : c \in Tier1Chars, d \in Tier1Chars}

\* the rows of standard_fields: a table of two rows, or n rows alike
Tier1Rows == {FieldAB, FieldB, [FieldB EXCEPT !.associated_terms = None]}
Tier1Catalogs ==
    {[id \in 1..n |-> f] : n \in {0, 1, Tier1Limit + 1}, f \in Tier1Rows}
    \cup {[id \in 1..2 |-> IF id = 1 THEN f ELSE g] : f \in Tier1Rows, g \in Tier1Rows}

InitTier1 ==
    /\ roots = Empty
    /\ rootSeq = 0
    /\ fields \in Tier1Catalogs
    /\ fieldSeq = MaxOf(DOMAIN fields)
    /\ idxRoots = Empty
    /\ idxFields = Empty
    /\ vocab = {}
    /\ jiebaWriter = 0
    /\ jiebaReaders = {}
    /\ embedOwner = 0
    /\ pc = [t \in {Main} \cup Tasks |->
                IF t = Main THEN "serving" ELSE IF t = 1 THEN "sf_sql" ELSE "idle"]
    /\ op = [t \in {Main} \cup Tasks |->
                IF t = Main THEN "main" ELSE IF t = 1 THEN "search_field" ELSE "none"]
    /\ \E q \in Tier1Queries :
          loc = [t \in {Main} \cup Tasks |->
                    IF t = 1 THEN [InitLoc EXCEPT !.q = q] ELSE InitLoc]
    /\ resp = [t \in {Main} \cup Tasks |-> NoResp]
    /\ deleted = [word_roots |-> {}, standard_fields |-> {}]

NextTier1 == search_field_sql(1)

SpecTier1 == InitTier1 /\ [][NextTier1]_vars

\* q occurs in s, character by character
Contains(s, q) ==
    \E i \in 0..(Len(s) - Len(q)) : SubSeq(s, i + 1, i + Len(q)) = q

\* the request answered from Tier 1
AnsweredByTier1(t) ==
    Done(t) /\ op[t] = "search_field" /\ ~loc[t].tier2 /\ resp[t].code = 200

\* C31: Tier 1 returns at most 10 rows, and the query text, taken literally,
\* occurs in field_cn_name or in associated_terms of every row it returns.
C31_Tier1LiteralSubstring ==
    \A t \in Tasks :
        AnsweredByTier1(t) =>
            /\ Len(resp[t].items) <= 10
            /\ \A i \in DOMAIN resp[t].items :
                  LET f == fields[resp[t].items[i].id]
                  IN  \/ Contains(f.field_cn_name, loc[t].q)
                      \/ /\ f.associated_terms /= None
                         /\ Contains(f.associated_terms, loc[t].q)

\* the clear-all of task t has answered 200
Cleared(t, h) == Done(t) /\ op[t] = h /\ resp[t].code = 200

\* C32: after a clear-all has completed successfully, with no other request
\* since it was accepted, the table and the collection of its kind are empty;
\* its steps leave the table and the collection of the other kind unchanged;
\* and a search of the cleared collection that follows returns no result.
C32_ClearAllEmptiesKind ==
    /\ [](\A t \in Tasks :
            (\A u \in Tasks \ {t} : pc[u] = "idle") =>
               /\ Cleared(t, "clear_all_roots") => roots = Empty /\ idxRoots = Empty
               /\ Cleared(t, "clear_all_fields") => fields = Empty /\ idxFields = Empty)
    /\ [][\A t \in Tasks :
             pc'[t] /= pc[t] =>
                /\ op'[t] = "clear_all_roots" => UNCHANGED <<fields, fieldSeq, idxFields>>
                /\ op'[t] = "clear_all_fields" => UNCHANGED <<roots, rootSeq, idxRoots>>]_vars
    /\ [][\A t \in Tasks, u \in Tasks :
             /\ Cleared(t, "clear_all_roots") /\ pc[u] = "sr_search" /\ resp'[u].code = 200
                   => resp'[u].items = <<>>
             /\ Cleared(t, "clear_all_fields") /\ pc[u] = "sf_search" /\ Done(u)'
                   => resp'[u].items = <<>>]_vars

\* the handlers that address one row by its id
ByIdOps == {"update_root", "delete_root", "update_field", "delete_field"}

\* the statement of t ran without error and found no row with the id
RowNotFound(t) ==
    Done(t) /\ op[t] \in ByIdOps /\ ~loc[t].dbOk /\ ~loc[t].dbErr

\* C33: an update or a delete of an id that is not in the table answers
\* not-found, which a store failure never does, and it embeds nothing, calls
\* the index for nothing and leaves the tables, the collections and the
\* dictionary unchanged.
C33_MissingIdIsNotFound ==
    /\ [](\A t \in Tasks :
            /\ RowNotFound(t) =>
                  resp[t].code = 404 /\ ~loc[t].embedRan /\ ~loc[t].idxTried
            /\ (Done(t) /\ op[t] \in ByIdOps /\ loc[t].dbErr) => resp[t].code /= 404)
    /\ [][\A t \in Tasks :
             (~Done(t) /\ RowNotFound(t)') => UNCHANGED <<db, idx, vocab>>]_vars

(***************************************************************************)
(* One batch import on the running server, over lists of items whose texts  *)
(* have different embeddings.                                               *)
(***************************************************************************)
\* BatchCreateWordRoot.items: the lists of one to MaxBatch of two items
BatchRows == {RootAB, [RootA EXCEPT !.associated_terms = <<"b">>]}

RECURSIVE BatchLists(_)
BatchLists(n) ==
    IF n = 0 THEN {<<>>}
    ELSE BatchLists(n - 1) \cup {Append(l, r) : l \in BatchLists(n - 1), r \in BatchRows}

InitBatch ==
    /\ roots \in InitRoots
    /\ rootSeq = MaxOf(DOMAIN roots)
    /\ fields = Empty
    /\ fieldSeq = 0
    /\ idxRoots = RootMirror(roots)
    /\ idxFields = Empty
    /\ vocab = {roots[id].cn_name : id \in DOMAIN roots}
    /\ jiebaWriter = 0
    /\ jiebaReaders = {}
    /\ embedOwner = 0
    /\ pc = [t \in {Main} \cup Tasks |->
                IF t = Main THEN "serving" ELSE IF t = 1 THEN "bc_lock" ELSE "idle"]
    /\ op = [t \in {Main} \cup Tasks |->
                IF t = Main THEN "main" ELSE IF t = 1 THEN "batch_create_roots" ELSE "none"]
    /\ \E items \in BatchLists(MaxBatch) \ {<<>>} :
          loc = [t \in {Main} \cup Tasks |->
                    IF t = 1
                    THEN [InitLoc EXCEPT
                            !.items = [i \in DOMAIN items |-> Normalized(items[i])]]
                    ELSE InitLoc]
    /\ resp = [t \in {Main} \cup Tasks |-> NoResp]
    /\ deleted = [word_roots |-> {}, standard_fields |-> {}]

NextBatch ==
    \/ batch_create_roots_lock(1)
    \/ batch_create_roots_embed(1)
    \/ batch_create_roots_insert(1)
    \/ batch_create_roots_jieba(1)
    \/ batch_create_roots_upsert(1)

SpecBatch == InitBatch /\ [][NextBatch]_vars

\* the import of t has answered, its upsert (if any) succeeded, and no other
\* request has been accepted
ImportedAlone(t) ==
    /\ Done(t) /\ op[t] = "batch_create_roots" /\ resp[t].code = 200
    /\ loc[t].idxTried => loc[t].idxOk
    /\ \A u \in Tasks \ {t} : pc[u] = "idle"

\* the indexes of the items whose INSERT succeeded, in item order
OkIndexes(t) ==
    SelectSeq([k \in 1..Len(loc[t].items) |-> k],
              LAMBDA k : \A e \in DOMAIN loc[t].errors : loc[t].errors[e] /= k)

\* C34: after a batch import, the point of every inserted item is keyed by
\* the id its row was given and holds the embedding of that item's own text,
\* also when other items failed; an item whose INSERT failed has no point
\* and has added no word to the dictionary.
C34_BatchVectorsOwnText ==
    \A t \in Tasks :
        ImportedAlone(t) =>
            LET oks == OkIndexes(t)
                ids == SortedIds(DOMAIN loc[t].points)
            IN  /\ Len(ids) = Len(oks)
                /\ \A j \in 1..Len(oks) :
                      LET it == loc[t].items[oks[j]]
                      IN  /\ ids[j] \in DOMAIN roots /\ roots[ids[j]] = it
                          /\ ids[j] \in DOMAIN idxRoots
                          /\ idxRoots[ids[j]] = RootPoint(ids[j], it, Embed(RootText(it)))
                /\ DOMAIN idxRoots = DOMAIN roots
                /\ vocab = {roots[id].cn_name : id \in DOMAIN roots}

\* C34: an import of two items whose first INSERT failed and whose second
\* succeeded, with the point of the second in word_roots
C34_Witness ==
    \E t \in Tasks :
        /\ ImportedAlone(t)
        /\ Len(loc[t].items) = 2 /\ loc[t].errors = <<1>> /\ loc[t].success = 1
        /\ loc[t].idxTried
        /\ loc[t].items[1].cn_name \notin vocab
        /\ Embed(RootText(loc[t].items[1])) /= Embed(RootText(loc[t].items[2]))

\* C35: a batch import that passed the embedding step reports counts that
\* add up to the number of items; success_count is the number of rows the
\* request added to standard_word_roots; errors names the failed items, one
\* entry each, in item order.
C35_ImportCountsAddUp ==
    /\ [](\A t \in Tasks :
            (Done(t) /\ op[t] = "batch_create_roots" /\ ~loc[t].embedErr) =>
               /\ resp[t].code = 200
               /\ resp[t].items[1] = loc[t].success
               /\ resp[t].items[1] + resp[t].items[2] = Len(loc[t].items)
               /\ Len(resp[t].items[3]) = resp[t].items[2]
               /\ Len(OkIndexes(t)) = resp[t].items[1]
               /\ \A i, j \in DOMAIN resp[t].items[3] :
                     i < j => resp[t].items[3][i] < resp[t].items[3][j])
    /\ [][\A t \in Tasks :
             (op'[t] = "batch_create_roots" /\ pc'[t] /= pc[t]) =>
                Cardinality(DOMAIN roots') - Cardinality(DOMAIN roots)
                   = loc'[t].success - loc[t].success]_vars

\* C35: an import of two items has inserted the first and failed on the second
C35_Witness ==
    \E t \in Tasks :
        /\ Done(t) /\ op[t] = "batch_create_roots"
        /\ Len(loc[t].items) = 2
        /\ resp[t].items = <<1, 1, <<2>>>>
        /\ Cardinality(DOMAIN roots) = 1

====
